---- MODULE Spec2Model ----
(***************************************************************************)
(* electron-pos-printer: the receipt builder (utils/receipt-builder.ts),   *)
(* the layout functions (utils/format.ts), the chars-per-line derivations  *)
(* and the ESC/POS encoder (commands/escpos-builder.ts).                   *)
(*                                                                         *)
(* Conventions of the model                                                *)
(*  - a JavaScript string is a sequence of one-character strings; a        *)
(*    character outside ASCII is written "U+XXXX" (one UTF-16 unit);       *)
(*  - an object is a record that has exactly the keys that are set: a key  *)
(*    that is absent models undefined;                                     *)
(*  - an optional argument is << >> (not given) or <<v>>;                  *)
(*  - a Buffer is a sequence of bytes 0..255;                              *)
(*  - a number that matters as a double is computed as a double.           *)
(***************************************************************************)
EXTENDS Integers, Sequences, FiniteSets, TLC

VARIABLES
  heap,             \* the content objects allocated so far, by reference
  contents,         \* ReceiptBuilder.contents: references into heap, in print order
  paperWidth,       \* ReceiptBuilder.paperWidth
  charsPerLine,     \* ReceiptBuilder.charsPerLine
  currencyOptions,  \* ReceiptBuilder.currencyOptions
  paperArg,         \* the argument createReceipt was called with
  taken,            \* the array the last getContents() returned: << >> or <<refs>>
  ret,              \* what the last builder call returned
  calls,            \* the builder calls made so far, createReceipt first
  call,             \* the pure function applied last and its arguments
  result            \* what it returned

vars == <<heap, contents, paperWidth, charsPerLine, currencyOptions, paperArg,
          taken, ret, calls, call, result>>

builderVars == <<heap, contents, paperWidth, charsPerLine, currencyOptions,
                 paperArg, taken, ret, calls>>

\* the last builder call and its arguments
lastOp == calls[Len(calls)]

\* number of builder calls made on the builder
ops == Len(calls) - 1

----------------------------------------------------------------------------
(* Bounds of the model *)

MaxOps == 3          \* builder calls in one run
MaxItems == 2        \* receipt items in a fromData template
MaxEncodeLen == 2    \* content items in one encoder input built from the core items
MaxPadLen == 6       \* largest target length given to padString
MaxColumns == 2      \* columns in one list given to calculateColumnWidths
MaxWrapLen == 5      \* characters of a text given to wordWrap

----------------------------------------------------------------------------
(* Objects, strings and numbers *)

Has(r, f) == f \in DOMAIN r

Field(r, f, d) == IF f \in DOMAIN r THEN r[f] ELSE d

\* { ...r, [f]: v }
With(r, f, v) == [k \in DOMAIN r \cup {f} |-> IF k = f THEN v ELSE r[k]]

NoObject == [k \in {} |-> TRUE]

Abs(n) == IF n < 0 THEN -n ELSE n

Min(a, b) == IF a < b THEN a ELSE b

Max(a, b) == IF a > b THEN a ELSE b

\* String.prototype.repeat: s repeated n times (n >= 0)
Repeat(s, n) == [i \in 1..(n * Len(s)) |-> s[((i - 1) % Len(s)) + 1]]

\* String.prototype.substring(from, to) with from, to counted from 0;
\* negative arguments count as 0 and arguments past the end as the length
Substring(s, from, to) ==
  LET a == Min(Max(from, 0), Len(s))
      b == Min(Max(to, 0), Len(s))
  IN SubSeq(s, Min(a, b) + 1, Max(a, b))

\* the concatenation of a sequence of sequences
RECURSIVE Concat(_)
Concat(ss) ==
  LET n == Len(ss)
      h == n \div 2
  IN IF n = 0 THEN << >>
     ELSE IF n = 1 THEN ss[1]
     ELSE Concat(SubSeq(ss, 1, h)) \o Concat(SubSeq(ss, h + 1, n))

Digits == <<"0", "1", "2", "3", "4", "5", "6", "7", "8", "9">>

IsDigit(c) == \E i \in 1..10 : Digits[i] = c

DigitValue(c) == (CHOOSE i \in 1..10 : Digits[i] = c) - 1

\* Number.prototype.toString for an integer n >= 0
RECURSIVE NatToString(_)
NatToString(n) ==
  IF n < 10 THEN <<Digits[n + 1]>>
  ELSE NatToString(n \div 10) \o <<Digits[(n % 10) + 1]>>

\* Number.prototype.toString for an integer
IntToString(n) == IF n < 0 THEN <<"-">> \o NatToString(-n) ELSE NatToString(n)

RECURSIVE DigitsToNat(_)
DigitsToNat(ds) ==
  IF ds = << >> THEN 0
  ELSE 10 * DigitsToNat(SubSeq(ds, 1, Len(ds) - 1)) + DigitValue(ds[Len(ds)])

\* parseInt(s, 10) for a string that starts with an optional sign and a digit:
\* the digits up to the first character that is no digit
ParseInt(s) ==
  LET neg == Len(s) > 0 /\ s[1] = "-"
      signed == Len(s) > 0 /\ (s[1] = "-" \/ s[1] = "+")
      body == IF signed THEN Tail(s) ELSE s
      stops == {i \in 1..Len(body) : ~IsDigit(body[i])}
      n == IF stops = {} THEN Len(body)
           ELSE (CHOOSE i \in stops : \A k \in stops : i <= k) - 1
      v == DigitsToNat(SubSeq(body, 1, n))
  IN IF neg THEN -v ELSE v

\* String.prototype.endsWith('%')
EndsWithPercent(s) == Len(s) > 0 /\ s[Len(s)] = "%"


----------------------------------------------------------------------------
(* Double arithmetic.  A positive double is a record [m, e]: m is the      *)
(* mantissa as binary digits, most significant first, and the value is     *)
(* m * 2^e.  Only what the layout code computes is modelled: a quotient of *)
(* two integers, its product with an integer, and Math.floor of that.      *)

DoubleMantissaBits == 53

ChunkBits == 18

Pow2Table ==
  <<1, 2, 4, 8, 16, 32, 64, 128, 256, 512, 1024, 2048, 4096, 8192, 16384, 32768,
    65536, 131072, 262144, 524288, 1048576, 2097152, 4194304, 8388608, 16777216,
    33554432, 67108864, 134217728, 268435456, 536870912, 1073741824>>

Pow2(n) == Pow2Table[n + 1]

\* 2^j mod d, by square and multiply
RECURSIVE PowMod2(_, _)
PowMod2(j, d) ==
  IF j = 0 THEN 1 % d
  ELSE LET h == PowMod2(j \div 2, d)
       IN (h * h * (IF j % 2 = 1 THEN 2 ELSE 1)) % d

\* exponent of the leading binary digit of num/den (num, den > 0)
RECURSIVE LeadExp(_, _)
LeadExp(num, den) ==
  IF num >= 2 * den THEN 1 + LeadExp(num, 2 * den)
  ELSE IF num < den THEN LeadExp(2 * num, den) - 1
  ELSE 0

\* the first n binary digits of num/den for 1 <= num/den < 2
DivBits(num, den, n) ==
  [i \in 1..n |->
     IF i = 1 THEN 1
     ELSE (2 * (((num - den) * PowMod2(i - 2, den)) % den)) \div den]

\* whether num/den has non-zero binary digits after the first n
DivSticky(num, den, n) == ((num - den) * PowMod2(n - 1, den)) % den # 0

\* a binary numeral plus one
BitsInc(bits) ==
  LET n == Len(bits)
      zeros == {i \in 1..n : bits[i] = 0}
  IN IF zeros = {} THEN <<1>> \o [i \in 1..n |-> 0]
     ELSE LET j == CHOOSE i \in zeros : \A k \in zeros : k <= i
          IN [i \in 1..n |-> IF i < j THEN bits[i] ELSE IF i = j THEN 1 ELSE 0]

\* a binary numeral without its leading zeros
BitsStrip(bits) ==
  LET ones == {i \in 1..Len(bits) : bits[i] = 1}
  IN IF ones = {} THEN << >>
     ELSE SubSeq(bits, CHOOSE i \in ones : \A k \in ones : i <= k, Len(bits))

RECURSIVE BitsToInt(_)
BitsToInt(bits) ==
  LET n == Len(bits)
      h == n \div 2
  IN IF n = 0 THEN 0
     ELSE IF n = 1 THEN bits[1]
     ELSE BitsToInt(SubSeq(bits, 1, h)) * Pow2(n - h) + BitsToInt(SubSeq(bits, h + 1, n))

IntToBits(v, n) == [i \in 1..n |-> (v \div Pow2(n - i)) % 2]

\* whether rounding to nearest, ties to even, of the numeral bits (followed
\* by non-zero digits when sticky) to DoubleMantissaBits digits rounds up
RoundsUp(bits, sticky) ==
  /\ Len(bits) > DoubleMantissaBits
  /\ bits[DoubleMantissaBits + 1] = 1
  /\ \/ sticky
     \/ \E i \in (DoubleMantissaBits + 2)..Len(bits) : bits[i] = 1
     \/ bits[DoubleMantissaBits] = 1

\* the double nearest to bits * 2^exp
RoundBits(bits, exp, sticky) ==
  LET n == Len(bits) IN
  IF n <= DoubleMantissaBits THEN [m |-> bits, e |-> exp]
  ELSE LET keep == SubSeq(bits, 1, DoubleMantissaBits)
           inc == IF RoundsUp(bits, sticky) THEN BitsInc(keep) ELSE keep
           e2 == exp + (n - DoubleMantissaBits)
       IN IF Len(inc) > DoubleMantissaBits
          THEN [m |-> SubSeq(inc, 1, DoubleMantissaBits), e |-> e2 + 1]
          ELSE [m |-> inc, e |-> e2]

\* the double nearest to num/den (num, den > 0)
DoubleDiv(num, den) ==
  LET k == LeadExp(num, den)
      n0 == IF k < 0 THEN num * Pow2(-k) ELSE num
      d0 == IF k > 0 THEN den * Pow2(k) ELSE den
  IN RoundBits(DivBits(n0, d0, DoubleMantissaBits + 1), k - DoubleMantissaBits,
               DivSticky(n0, d0, DoubleMantissaBits + 1))

\* the double nearest to t * x for an integer 0 < t < 2^12 and a double x > 0;
\* the mantissa is multiplied in three chunks of ChunkBits digits
DoubleMulInt(t, x) ==
  LET m == [i \in 1..(3 * ChunkBits - Len(x.m)) |-> 0] \o x.m
      c1 == BitsToInt(SubSeq(m, 1, ChunkBits))
      c2 == BitsToInt(SubSeq(m, ChunkBits + 1, 2 * ChunkBits))
      c3 == BitsToInt(SubSeq(m, 2 * ChunkBits + 1, 3 * ChunkBits))
      p3 == c3 * t
      p2 == c2 * t + p3 \div Pow2(ChunkBits)
      p1 == c1 * t + p2 \div Pow2(ChunkBits)
      prod == IntToBits(p1, 30) \o IntToBits(p2 % Pow2(ChunkBits), ChunkBits)
                \o IntToBits(p3 % Pow2(ChunkBits), ChunkBits)
  IN RoundBits(BitsStrip(prod), x.e, FALSE)

\* integer part of a double 0 < x < 2^30, and whether a fraction is left
DoubleTrunc(x) ==
  LET n == Len(x.m)
      ip == n + x.e
  IN IF x.e >= 0 THEN [int |-> BitsToInt(x.m) * Pow2(x.e), frac |-> FALSE]
     ELSE IF ip <= 0 THEN [int |-> 0, frac |-> TRUE]
     ELSE [int |-> BitsToInt(SubSeq(x.m, 1, ip)),
           frac |-> \E i \in (ip + 1)..n : x.m[i] = 1]

\* Math.floor(totalWidth * percent) with percent = p / 100, as doubles
FloorMulPercent(totalWidth, p) ==
  IF totalWidth = 0 \/ p = 0 THEN 0
  ELSE LET t == DoubleTrunc(DoubleMulInt(Abs(totalWidth), DoubleDiv(Abs(p), 100)))
       IN IF (totalWidth < 0) = (p < 0) THEN t.int
          ELSE IF t.frac THEN -(t.int + 1) ELSE -t.int

\* Math.floor(a / b) for integers a and b > 0 below 2^31: the double nearest
\* to a/b is a/b itself when a/b is an integer and lies strictly between the
\* same two integers as a/b when it is not
FloorDiv(a, b) == a \div b

\* how the double nearest to num/den (num >= 0, den > 0) compares with
\* num/den: 0 when equal, 1 when above, -1 when below
DoubleDivError(num, den) ==
  IF num = 0 THEN 0
  ELSE LET k == LeadExp(num, den)
           n0 == IF k < 0 THEN num * Pow2(-k) ELSE num
           d0 == IF k > 0 THEN den * Pow2(k) ELSE den
           bits == DivBits(n0, d0, DoubleMantissaBits + 1)
           sticky == DivSticky(n0, d0, DoubleMantissaBits + 1)
       IN IF bits[DoubleMantissaBits + 1] = 0 /\ ~sticky THEN 0
          ELSE IF RoundsUp(bits, sticky) THEN 1 ELSE -1

----------------------------------------------------------------------------
(* Defaults (types/index.ts) *)

DEFAULTS_PAPER_WIDTH == 80

CHARS_PER_LINE_58 == 32

CHARS_PER_LINE_80 == 48

BARCODE_WIDTH == 2

BARCODE_HEIGHT == 100

QR_SIZE == 6

QR_ERROR_CORRECTION == "M"

FEED_LINES == 3

LINE_CHARACTER == <<"-">>

----------------------------------------------------------------------------
(* Layout engine (utils/format.ts).  An amount is an integer number of      *)
(* hundredths: the amount 12.5 is 1250.                                     *)

defaultCurrencyOptions ==
  [symbol |-> << >>, decimals |-> 2, thousandSeparator |-> <<" ">>,
   decimalSeparator |-> <<".">>, symbolPosition |-> "after"]

Pow10(d) == IF d = 0 THEN 1 ELSE IF d = 1 THEN 10 ELSE IF d = 2 THEN 100 ELSE 1000

\* hundredths / 100 rounded to a whole number of units, a half going the way
\* the double nearest to hundredths / 100 lies
RoundToUnit(hundredths, unit) ==
  IF 2 * (hundredths % unit) > unit
     \/ (2 * (hundredths % unit) = unit /\ DoubleDivError(hundredths, 100) >= 0)
  THEN (hundredths \div unit) + 1 ELSE hundredths \div unit

\* the digits n with at least decimals + 1 of them, zeros leading
ZeroPadded(m, decimals) ==
  IF Len(m) <= decimals THEN [i \in 1..(decimals + 1 - Len(m)) |-> "0"] \o m ELSE m

\* the digits with a decimal point before the last decimals of them
PointBefore(padded, decimals) ==
  SubSeq(padded, 1, Len(padded) - decimals) \o <<".">>
  \o SubSeq(padded, Len(padded) - decimals + 1, Len(padded))

\* Number.prototype.toFixed(decimals) of the double nearest to hundredths/100,
\* hundredths >= 0 and decimals in 0..3: the integer n for which n / 10^decimals
\* is nearest to the double, the larger one of two, written with a decimal
\* point.  (Where the decimal digits cut off are exactly a half, the side the
\* double lies on decides; such amounts stay below 400.00 in the model.)
toFixed(hundredths, decimals) ==
  IF decimals >= 2
  THEN PointBefore(ZeroPadded(NatToString(hundredths * Pow10(decimals - 2)), decimals),
                   decimals)
  ELSE IF decimals = 0 THEN NatToString(RoundToUnit(hundredths, 100))
  ELSE PointBefore(ZeroPadded(NatToString(RoundToUnit(hundredths, 10)), decimals),
                   decimals)

\* fixed.split('.'): the part before the point and the part after it
SplitAtPoint(fixed) ==
  LET points == {i \in 1..Len(fixed) : fixed[i] = "."}
  IN IF points = {} THEN <<fixed>>
     ELSE LET i == CHOOSE j \in points : TRUE
          IN <<SubSeq(fixed, 1, i - 1), SubSeq(fixed, i + 1, Len(fixed))>>

\* intPart.replace(/\B(?=(\d{3})+(?!\d))/g, separator)
AddThousandSeparators(intPart, separator) ==
  LET n == Len(intPart)
  IN Concat([i \in 1..n |->
       IF i > 1 /\ (n - i + 1) % 3 = 0 THEN separator \o <<intPart[i]>>
       ELSE <<intPart[i]>>])

\* { ...defaultCurrencyOptions, ...options }
MergedCurrencyOptions(options) ==
  [k \in DOMAIN defaultCurrencyOptions |->
     IF k \in DOMAIN options THEN options[k] ELSE defaultCurrencyOptions[k]]

\* the integer part with its separators, then the decimal part where there is one
JoinParts(parts, opts) ==
  IF Len(parts) > 1 /\ parts[2] # << >>
  THEN AddThousandSeparators(parts[1], opts.thousandSeparator)
       \o opts.decimalSeparator \o parts[2]
  ELSE AddThousandSeparators(parts[1], opts.thousandSeparator)

\* the sign of a negative amount put before the symbol
SignAndSymbol_signOutside(amount, joined, opts) ==
  IF opts.symbol # << >>
  THEN IF opts.symbolPosition = "before"
       THEN (IF amount < 0 THEN <<"-">> ELSE << >>) \o opts.symbol \o joined
       ELSE (IF amount < 0 THEN <<"-">> ELSE << >>) \o joined \o <<" ">> \o opts.symbol
  ELSE (IF amount < 0 THEN <<"-">> ELSE << >>) \o joined

\* the sign of a negative amount, then the symbol before or after
SignAndSymbol(amount, joined, opts) ==
  IF opts.symbol # << >>
  THEN IF opts.symbolPosition = "before"
       THEN opts.symbol \o (IF amount < 0 THEN <<"-">> ELSE << >>) \o joined
       ELSE (IF amount < 0 THEN <<"-">> ELSE << >>) \o joined \o <<" ">> \o opts.symbol
  ELSE (IF amount < 0 THEN <<"-">> ELSE << >>) \o joined

FormatWith(amount, opts) ==
  SignAndSymbol(amount, JoinParts(SplitAtPoint(toFixed(Abs(amount), opts.decimals)), opts),
                opts)

formatCurrency(amount, options) == FormatWith(amount, MergedCurrencyOptions(options))

\* a padString that centres with the larger half of the padding leading
padString_largerHalfLeading(text, length, align, padChar) ==
  LET a == IF align = << >> THEN "left" ELSE align[1]
      pc == IF padChar = << >> THEN <<" ">> ELSE padChar[1]
      padding == length - Len(text)
      rightPad == padding \div 2
      leftPad == padding - rightPad
  IN IF Len(text) >= length THEN Substring(text, 0, length)
     ELSE IF a = "left" THEN text \o Repeat(pc, padding)
     ELSE IF a = "right" THEN Repeat(pc, padding) \o text
     ELSE Repeat(pc, leftPad) \o text \o Repeat(pc, rightPad)

padString(text, length, align, padChar) ==
  LET a == IF align = << >> THEN "left" ELSE align[1]
      pc == IF padChar = << >> THEN <<" ">> ELSE padChar[1]
      padding == length - Len(text)
      leftPad == padding \div 2
      rightPad == padding - leftPad
  IN IF Len(text) >= length THEN Substring(text, 0, length)
     ELSE IF a = "left" THEN text \o Repeat(pc, padding)
     ELSE IF a = "right" THEN Repeat(pc, padding) \o text
     ELSE Repeat(pc, leftPad) \o text \o Repeat(pc, rightPad)

createLine(length, char) ==
  Repeat(IF char = << >> THEN LINE_CHARACTER ELSE char[1], length)

\* String.prototype.split(' '): the pieces between the spaces, empty ones kept
RECURSIVE Split(_)
Split(s) ==
  IF \A i \in 1..Len(s) : s[i] # " " THEN <<s>>
  ELSE LET i == CHOOSE k \in 1..Len(s) : s[k] = " " /\ \A m \in 1..(k - 1) : s[m] # " "
       IN <<SubSeq(s, 1, i - 1)>> \o Split(SubSeq(s, i + 1, Len(s)))

\* String.prototype.trim(): without the white space at either end
Trim(s) ==
  LET kept == {i \in 1..Len(s) : s[i] \notin {" ", "\t", "\n"}}
  IN IF kept = {} THEN << >>
     ELSE SubSeq(s, CHOOSE i \in kept : \A k \in kept : i <= k,
                 CHOOSE i \in kept : \A k \in kept : i >= k)

\* lines with currentLine.trim() pushed, if (currentLine)
PushCurrent(w) ==
  IF w.currentLine # << >> THEN Append(w.lines, Trim(w.currentLine)) ELSE w.lines

\* one pass of the loop over the words; w is lines and currentLine
WrapWord(w, word, maxWidth) ==
  IF Len(word) > maxWidth
  THEN [lines |-> PushCurrent(w)
                  \o [k \in 1..((Len(word) - 1) \div maxWidth) |->
                        Substring(word, (k - 1) * maxWidth, k * maxWidth)],
        currentLine |-> Substring(word, ((Len(word) - 1) \div maxWidth) * maxWidth,
                                  Len(word))]
  ELSE IF Len(Trim(w.currentLine \o <<" ">> \o word)) <= maxWidth
  THEN [lines |-> w.lines, currentLine |-> Trim(w.currentLine \o <<" ">> \o word)]
  ELSE [lines |-> PushCurrent(w), currentLine |-> word]

\* for (const word of words)
RECURSIVE WrapWords(_, _, _)
WrapWords(w, words, maxWidth) ==
  IF words = << >> THEN w
  ELSE WrapWords(WrapWord(w, words[1], maxWidth), Tail(words), maxWidth)

wordWrap(text, maxWidth) ==
  IF Len(text) <= maxWidth THEN <<text>>
  ELSE PushCurrent(WrapWords([lines |-> << >>, currentLine |-> << >>], Split(text),
                             maxWidth))

RECURSIVE SumSeq(_)
SumSeq(ns) == IF ns = << >> THEN 0 ELSE ns[1] + SumSeq(Tail(ns))

\* the width a column with a width asks for: a percentage of totalWidth, or
\* a count given as a number or as a string
ExplicitWidth(col, totalWidth) ==
  IF Has(col.width, "str") /\ EndsWithPercent(col.width.str)
  THEN FloorMulPercent(totalWidth, ParseInt(col.width.str))
  ELSE IF Has(col.width, "num") THEN col.width.num
  ELSE ParseInt(col.width.str)

calculateColumnWidths(columns, totalWidth) ==
  LET n == Len(columns)
      widths == [i \in 1..n |->
                   IF ~Has(columns[i], "width") THEN -1
                   ELSE ExplicitWidth(columns[i], totalWidth)]
      flexColumns == Cardinality({i \in 1..n : ~Has(columns[i], "width")})
      remainingWidth ==
        totalWidth - SumSeq([i \in 1..n |->
                               IF Has(columns[i], "width") THEN widths[i] ELSE 0])
      flexWidth == FloorDiv(remainingWidth, flexColumns)
  IN IF flexColumns > 0
     THEN [i \in 1..n |-> IF widths[i] = -1 THEN flexWidth ELSE widths[i]]
     ELSE widths

getCharsPerLine(pw) == IF pw = 58 THEN CHARS_PER_LINE_58 ELSE CHARS_PER_LINE_80

\* the first place at which key occurs in s, 0 when it does not
IndexOf(s, key) ==
  LET at == {i \in 1..(Len(s) - Len(key) + 1) : SubSeq(s, i, i + Len(key) - 1) = key}
  IN IF at = {} THEN 0 ELSE CHOOSE i \in at : \A k \in at : i <= k

\* String.prototype.replace(key, value) with a string key: the first occurrence
ReplaceFirst(s, key, value) ==
  LET i == IndexOf(s, key)
  IN IF i = 0 THEN s
     ELSE SubSeq(s, 1, i - 1) \o value \o SubSeq(s, i + Len(key), Len(s))

\* n.toString().padStart(2, '0')
Pad2(n) == IF n < 10 THEN <<"0">> \o NatToString(n) ELSE NatToString(n)

DateFormat == <<"d", "d", ".", "M", "M", ".", "y", "y", "y", "y", " ", "H", "H", ":", "m", "m">>

\* formatDate(date) with the default format; a Date is the record of its
\* local-time fields, month as getMonth() gives it
formatDate(date) ==
  LET r1 == ReplaceFirst(DateFormat, <<"y", "y", "y", "y">>, NatToString(date.year))
      r2 == ReplaceFirst(r1, <<"M", "M">>, Pad2(date.month + 1))
      r3 == ReplaceFirst(r2, <<"d", "d">>, Pad2(date.date))
      r4 == ReplaceFirst(r3, <<"H", "H">>, Pad2(date.hours))
      r5 == ReplaceFirst(r4, <<"m", "m">>, Pad2(date.minutes))
  IN ReplaceFirst(r5, <<"s", "s">>, Pad2(date.seconds))

----------------------------------------------------------------------------
(* Printer module (printer/index.ts) *)

\* a printer module that takes the two widths the other way round
printer_getCharsPerLine_swapped(pw) == IF pw = 58 THEN 48 ELSE 32

printer_getCharsPerLine(pw) == IF pw = 58 THEN 32 ELSE 48

----------------------------------------------------------------------------
(* Character encodings *)

AsciiPrintable ==
  <<" ", "!", "\"", "#", "$", "%", "&", "'", "(", ")", "*", "+", ",", "-", ".", "/",
    "0", "1", "2", "3", "4", "5", "6", "7", "8", "9", ":", ";", "<", "=", ">", "?",
    "@", "A", "B", "C", "D", "E", "F", "G", "H", "I", "J", "K", "L", "M", "N", "O",
    "P", "Q", "R", "S", "T", "U", "V", "W", "X", "Y", "Z", "[", "\\", "]", "^", "_",
    "U+0060", "a", "b", "c", "d", "e", "f", "g", "h", "i", "j", "k", "l", "m", "n", "o",
    "p", "q", "r", "s", "t", "u", "v", "w", "x", "y", "z", "{", "|", "}", "~">>

\* the UTF-16 code unit of each character of the model
CodeUnitTable ==
  [c \in {AsciiPrintable[i] : i \in 1..Len(AsciiPrintable)} |->
     31 + CHOOSE i \in 1..Len(AsciiPrintable) : AsciiPrintable[i] = c]
  @@ ("\n" :> 10) @@ ("U+00E9" :> 233) @@ ("U+2500" :> 9472)

CodeUnit(c) == CodeUnitTable[c]

\* the UTF-8 bytes of one character of the basic plane
Utf8Char(c) ==
  LET u == CodeUnit(c)
  IN IF u < 128 THEN <<u>>
     ELSE IF u < 2048 THEN <<192 + (u \div 64), 128 + (u % 64)>>
     ELSE <<224 + (u \div 4096), 128 + ((u \div 64) % 64), 128 + (u % 64)>>

\* Buffer.from(s, 'utf8')
BufferFromUtf8(s) == Concat([i \in 1..Len(s) |-> Utf8Char(s[i])])

\* Buffer.from(s, 'ascii'): the low byte of each code unit
BufferFromAscii(s) == [i \in 1..Len(s) |-> CodeUnit(s[i]) % 256]

\* Buffer.from(array): each number modulo 256
BufferFrom(ns) == [i \in 1..Len(ns) |-> ns[i] % 256]

----------------------------------------------------------------------------
(* ESC/POS encoder (commands/escpos-builder.ts) *)

ESC == 27

GS == 29

LF == 10

CMD ==
  [INIT |-> BufferFrom(<<ESC, 64>>),
   LF |-> BufferFrom(<<LF>>),
   ALIGN_LEFT |-> BufferFrom(<<ESC, 97, 0>>),
   ALIGN_CENTER |-> BufferFrom(<<ESC, 97, 1>>),
   ALIGN_RIGHT |-> BufferFrom(<<ESC, 97, 2>>),
   BOLD_ON |-> BufferFrom(<<ESC, 69, 1>>),
   BOLD_OFF |-> BufferFrom(<<ESC, 69, 0>>),
   UNDERLINE_ON |-> BufferFrom(<<ESC, 45, 1>>),
   UNDERLINE_OFF |-> BufferFrom(<<ESC, 45, 0>>),
   INVERT_ON |-> BufferFrom(<<GS, 66, 1>>),
   INVERT_OFF |-> BufferFrom(<<GS, 66, 0>>),
   SIZE_NORMAL |-> BufferFrom(<<ESC, 33, 0>>),
   SIZE_DOUBLE_HEIGHT |-> BufferFrom(<<ESC, 33, 16>>),
   SIZE_DOUBLE_WIDTH |-> BufferFrom(<<ESC, 33, 32>>),
   SIZE_DOUBLE |-> BufferFrom(<<ESC, 33, 48>>),
   CUT_PARTIAL |-> BufferFrom(<<GS, 86, 65, 0>>),
   CUT_FULL |-> BufferFrom(<<GS, 86, 0>>)]

\* a feed command whose line count is not clamped
CMD_feed_unclamped(n) == BufferFrom(<<ESC, 100, n>>)

CMD_feed(n) == BufferFrom(<<ESC, 100, Min(255, Max(0, n))>>)

\* r?.[f] as an optional value, r itself optional
OptField(r, f) == IF r # << >> /\ Has(r[1], f) THEN <<r[1][f]>> ELSE << >>

\* the optional key f of the object r as an optional value
Opt(r, f) == IF Has(r, f) THEN <<r[f]>> ELSE << >>

\* a ?? d
OrElse(a, d) == IF a = << >> THEN d ELSE a[1]

\* Commands.QRCODE.MODEL of the exported command table: model is <<1>>, <<2>>
\* or absent
Commands_QRCODE_MODEL(model) == <<GS, 40, 107, 4, 0, 49, 65, OrElse(model, 2), 0>>

\* a Text item whose bold-on command comes before its size command
buildTextESCPOS_boldBeforeSize(text, style) ==
  LET align == OptField(style, "align")
      size == OptField(style, "size")
      bold == OptField(style, "bold") = <<TRUE>>
      underline == OptField(style, "underline") = <<TRUE>>
      invert == OptField(style, "invert") = <<TRUE>>
  IN <<IF align = <<"center">> THEN CMD.ALIGN_CENTER
       ELSE IF align = <<"right">> THEN CMD.ALIGN_RIGHT
       ELSE CMD.ALIGN_LEFT>>
     \o (IF bold THEN <<CMD.BOLD_ON>> ELSE << >>)
     \o (IF size = <<"double">> THEN <<CMD.SIZE_DOUBLE>>
         ELSE IF size = <<"double-height">> THEN <<CMD.SIZE_DOUBLE_HEIGHT>>
         ELSE IF size = <<"double-width">> THEN <<CMD.SIZE_DOUBLE_WIDTH>>
         ELSE << >>)
     \o (IF underline THEN <<CMD.UNDERLINE_ON>> ELSE << >>)
     \o (IF invert THEN <<CMD.INVERT_ON>> ELSE << >>)
     \o <<BufferFromUtf8(text), CMD.LF>>
     \o (IF bold THEN <<CMD.BOLD_OFF>> ELSE << >>)
     \o (IF underline THEN <<CMD.UNDERLINE_OFF>> ELSE << >>)
     \o (IF invert THEN <<CMD.INVERT_OFF>> ELSE << >>)
     \o (IF size # << >> THEN <<CMD.SIZE_NORMAL>> ELSE << >>)
     \o <<CMD.ALIGN_LEFT>>

buildTextESCPOS(text, style) ==
  LET align == OptField(style, "align")
      size == OptField(style, "size")
      bold == OptField(style, "bold") = <<TRUE>>
      underline == OptField(style, "underline") = <<TRUE>>
      invert == OptField(style, "invert") = <<TRUE>>
  IN <<IF align = <<"center">> THEN CMD.ALIGN_CENTER
       ELSE IF align = <<"right">> THEN CMD.ALIGN_RIGHT
       ELSE CMD.ALIGN_LEFT>>
     \o (IF size = <<"double">> THEN <<CMD.SIZE_DOUBLE>>
         ELSE IF size = <<"double-height">> THEN <<CMD.SIZE_DOUBLE_HEIGHT>>
         ELSE IF size = <<"double-width">> THEN <<CMD.SIZE_DOUBLE_WIDTH>>
         ELSE << >>)
     \o (IF bold THEN <<CMD.BOLD_ON>> ELSE << >>)
     \o (IF underline THEN <<CMD.UNDERLINE_ON>> ELSE << >>)
     \o (IF invert THEN <<CMD.INVERT_ON>> ELSE << >>)
     \o <<BufferFromUtf8(text), CMD.LF>>
     \o (IF bold THEN <<CMD.BOLD_OFF>> ELSE << >>)
     \o (IF underline THEN <<CMD.UNDERLINE_OFF>> ELSE << >>)
     \o (IF invert THEN <<CMD.INVERT_OFF>> ELSE << >>)
     \o (IF size # << >> THEN <<CMD.SIZE_NORMAL>> ELSE << >>)
     \o <<CMD.ALIGN_LEFT>>

buildLineESCPOS(character, cpl) ==
  LET char == IF character = << >> \/ character = <<<< >>>> THEN LINE_CHARACTER
              ELSE character[1]
  IN <<BufferFromUtf8(Repeat(char, cpl)), CMD.LF>>

\* the encoder's own calculateColumnWidths
\* widths of which no explicit one is above the total width
escpos_calculateColumnWidths_clamped(columns, totalWidth) ==
  LET n == Len(columns)
      fixed == [i \in 1..n |->
                  IF Has(columns[i], "width")
                  THEN Min(ExplicitWidth(columns[i], totalWidth), totalWidth) ELSE 0]
      usedWidth == SumSeq(fixed)
      flexCount == Cardinality({i \in 1..n : ~Has(columns[i], "width")})
      remaining == totalWidth - usedWidth
      flexWidth == FloorDiv(remaining, flexCount)
  IN [i \in 1..n |-> IF Has(columns[i], "width") THEN fixed[i] ELSE flexWidth]

escpos_calculateColumnWidths(columns, totalWidth) ==
  LET n == Len(columns)
      fixed == [i \in 1..n |->
                  IF Has(columns[i], "width")
                  THEN ExplicitWidth(columns[i], totalWidth) ELSE 0]
      usedWidth == SumSeq(fixed)
      flexCount == Cardinality({i \in 1..n : ~Has(columns[i], "width")})
      remaining == totalWidth - usedWidth
      flexWidth == FloorDiv(remaining, flexCount)
  IN [i \in 1..n |-> IF Has(columns[i], "width") THEN fixed[i] ELSE flexWidth]

\* a column that pads a left-aligned text before it
ColumnText_padsBefore(col, width) ==
  LET text == IF Has(col, "text") THEN col.text ELSE << >>
      padding == width - Len(text)
      left == padding \div 2
  IN IF Len(text) > width THEN Substring(text, 0, width)
     ELSE IF Opt(col, "align") = <<"center">>
     THEN Repeat(<<" ">>, left) \o text \o Repeat(<<" ">>, padding - left)
     ELSE Repeat(<<" ">>, padding) \o text

\* one column's text cut or padded to width
\* a column that never cuts its text
ColumnText_keepsLongText(col, width) ==
  LET text == IF Has(col, "text") THEN col.text ELSE << >>
      padding == width - Len(text)
      left == padding \div 2
  IN IF Len(text) > width THEN text
     ELSE IF Opt(col, "align") = <<"right">> THEN Repeat(<<" ">>, padding) \o text
     ELSE IF Opt(col, "align") = <<"center">>
     THEN Repeat(<<" ">>, left) \o text \o Repeat(<<" ">>, padding - left)
     ELSE text \o Repeat(<<" ">>, padding)

ColumnText(col, width) ==
  LET text == IF Has(col, "text") THEN col.text ELSE << >>
      padding == width - Len(text)
      left == padding \div 2
  IN IF Len(text) > width THEN Substring(text, 0, width)
     ELSE IF Opt(col, "align") = <<"right">> THEN Repeat(<<" ">>, padding) \o text
     ELSE IF Opt(col, "align") = <<"center">>
     THEN Repeat(<<" ">>, left) \o text \o Repeat(<<" ">>, padding - left)
     ELSE text \o Repeat(<<" ">>, padding)

\* the composed line of one table row
RowLine(row, cpl) ==
  LET colWidths == escpos_calculateColumnWidths(row, cpl)
  IN Concat([i \in 1..Len(row) |-> ColumnText(row[i], colWidths[i])])

\* a row that turns bold on and never off
RowESCPOS_keepsBold(row, cpl) ==
  (IF \E i \in 1..Len(row) : Opt(row[i], "bold") = <<TRUE>> THEN <<CMD.BOLD_ON>>
   ELSE << >>)
  \o <<BufferFromUtf8(RowLine(row, cpl)), CMD.LF>>

RowESCPOS(row, cpl) ==
  LET hasBold == \E i \in 1..Len(row) : Opt(row[i], "bold") = <<TRUE>>
  IN (IF hasBold THEN <<CMD.BOLD_ON>> ELSE << >>)
     \o <<BufferFromUtf8(RowLine(row, cpl)), CMD.LF>>
     \o (IF hasBold THEN <<CMD.BOLD_OFF>> ELSE << >>)

buildTableESCPOS(rows, cpl) ==
  Concat([i \in 1..Len(rows) |-> RowESCPOS(rows[i], cpl)])

barcodeTypes ==
  [t \in {"UPC-A", "UPC-E", "EAN13", "EAN8", "CODE39", "ITF", "CODABAR", "CODE93",
          "CODE128"} |->
     CASE t = "UPC-A" -> 65 [] t = "UPC-E" -> 66 [] t = "EAN13" -> 67
       [] t = "EAN8" -> 68 [] t = "CODE39" -> 69 [] t = "ITF" -> 70
       [] t = "CODABAR" -> 71 [] t = "CODE93" -> 72 [] t = "CODE128" -> 73]

buildBarcodeESCPOS(value, options) ==
  LET height == OrElse(Opt(options, "height"), BARCODE_HEIGHT)
      width == OrElse(Opt(options, "width"), BARCODE_WIDTH)
      align == Opt(options, "align")
      hriPosition == OrElse(Opt(options, "textPosition"), "below")
      hriCode == IF hriPosition = "none" THEN 0
                 ELSE IF hriPosition = "above" THEN 1
                 ELSE IF hriPosition = "both" THEN 3 ELSE 2
      typeCode == IF options.type \in DOMAIN barcodeTypes
                  THEN barcodeTypes[options.type] ELSE 73
  IN (IF align = <<"center">> THEN <<CMD.ALIGN_CENTER>>
      ELSE IF align = <<"right">> THEN <<CMD.ALIGN_RIGHT>> ELSE << >>)
     \o <<BufferFrom(<<GS, 104, Min(255, height)>>),
          BufferFrom(<<GS, 119, Min(6, Max(2, width))>>),
          BufferFrom(<<GS, 72, hriCode>>)>>
     \o (IF options.type = "CODE128"
         THEN <<BufferFrom(<<GS, 107, typeCode, Len(value) + 2, 123, 66>>),
                BufferFromAscii(value)>>
         ELSE <<BufferFrom(<<GS, 107, typeCode, Len(value)>>), BufferFromAscii(value)>>)
     \o <<CMD.LF, CMD.ALIGN_LEFT>>

errorCodes == [l \in {"L", "M", "Q", "H"} |->
                 CASE l = "L" -> 48 [] l = "M" -> 49 [] l = "Q" -> 50 [] l = "H" -> 51]

\* a QR item whose size of 0 is replaced by the default, as || would
buildQRCodeESCPOS_sizeOrDefault(value, options) ==
  LET size == IF OptField(options, "size") \in {<< >>, <<0>>} THEN QR_SIZE
              ELSE OptField(options, "size")[1]
      errorLevel == OrElse(OptField(options, "errorCorrection"), QR_ERROR_CORRECTION)
      align == OptField(options, "align")
      errorCode == IF errorLevel \in DOMAIN errorCodes THEN errorCodes[errorLevel] ELSE 49
      dataBytes == BufferFromUtf8(value)
      storeLen == Len(dataBytes) + 3
      pL == storeLen % 256
      pH == (storeLen \div 256) % 256
  IN (IF align = <<"center">> THEN <<CMD.ALIGN_CENTER>>
      ELSE IF align = <<"right">> THEN <<CMD.ALIGN_RIGHT>> ELSE << >>)
     \o <<BufferFrom(<<GS, 40, 107, 4, 0, 49, 65, 50, 0>>),
          BufferFrom(<<GS, 40, 107, 3, 0, 49, 67, Min(16, Max(1, size))>>),
          BufferFrom(<<GS, 40, 107, 3, 0, 49, 69, errorCode>>),
          BufferFrom(<<GS, 40, 107, pL, pH, 49, 80, 48>>),
          dataBytes,
          BufferFrom(<<GS, 40, 107, 3, 0, 49, 81, 48>>),
          CMD.LF, CMD.ALIGN_LEFT>>

buildQRCodeESCPOS(value, options) ==
  LET size == OrElse(OptField(options, "size"), QR_SIZE)
      errorLevel == OrElse(OptField(options, "errorCorrection"), QR_ERROR_CORRECTION)
      align == OptField(options, "align")
      errorCode == IF errorLevel \in DOMAIN errorCodes THEN errorCodes[errorLevel] ELSE 49
      dataBytes == BufferFromUtf8(value)
      storeLen == Len(dataBytes) + 3
      pL == storeLen % 256
      pH == (storeLen \div 256) % 256
  IN (IF align = <<"center">> THEN <<CMD.ALIGN_CENTER>>
      ELSE IF align = <<"right">> THEN <<CMD.ALIGN_RIGHT>> ELSE << >>)
     \o <<BufferFrom(<<GS, 40, 107, 4, 0, 49, 65, 50, 0>>),
          BufferFrom(<<GS, 40, 107, 3, 0, 49, 67, Min(16, Max(1, size))>>),
          BufferFrom(<<GS, 40, 107, 3, 0, 49, 69, errorCode>>),
          BufferFrom(<<GS, 40, 107, pL, pH, 49, 80, 48>>),
          dataBytes,
          BufferFrom(<<GS, 40, 107, 3, 0, 49, 81, 48>>),
          CMD.LF, CMD.ALIGN_LEFT>>

ImagePlaceholder == <<"[", "I", "M", "A", "G", "E", "]", "\n">>

\* an encoder whose Cut item cuts without feeding
buildContentESCPOS_cutWithoutFeed(content, cpl) ==
  CASE content.type = "text" ->
         buildTextESCPOS(content.value, Opt(content, "style"))
    [] content.type = "line" -> buildLineESCPOS(Opt(content, "character"), cpl)
    [] content.type = "table" -> buildTableESCPOS(content.rows, cpl)
    [] content.type = "feed" ->
         <<CMD_feed(OrElse(Opt(content, "lines"), FEED_LINES))>>
    [] content.type = "cut" ->
         <<IF Opt(content, "partial") = <<TRUE>> THEN CMD.CUT_PARTIAL ELSE CMD.CUT_FULL>>
    [] content.type = "barcode" -> buildBarcodeESCPOS(content.value, content.options)
    [] content.type = "qrcode" ->
         buildQRCodeESCPOS(content.value, Opt(content, "options"))
    [] content.type = "image" -> <<BufferFromUtf8(ImagePlaceholder)>>
    [] OTHER -> << >>

buildContentESCPOS(content, cpl) ==
  CASE content.type = "text" ->
         buildTextESCPOS(content.value, Opt(content, "style"))
    [] content.type = "line" -> buildLineESCPOS(Opt(content, "character"), cpl)
    [] content.type = "table" -> buildTableESCPOS(content.rows, cpl)
    [] content.type = "feed" ->
         <<CMD_feed(OrElse(Opt(content, "lines"), FEED_LINES))>>
    [] content.type = "cut" ->
         <<CMD_feed(3),
           IF Opt(content, "partial") = <<TRUE>> THEN CMD.CUT_PARTIAL ELSE CMD.CUT_FULL>>
    [] content.type = "barcode" -> buildBarcodeESCPOS(content.value, content.options)
    [] content.type = "qrcode" ->
         buildQRCodeESCPOS(content.value, Opt(content, "options"))
    [] content.type = "image" -> <<BufferFromUtf8(ImagePlaceholder)>>
    [] OTHER -> << >>

\* the width of a line the encoder composes for a paper width
escpos_charsPerLine(pw) == IF pw = 58 THEN CHARS_PER_LINE_58 ELSE CHARS_PER_LINE_80

\* an encoder that leaves out the initialization command
buildESCPOSData_noInit(cs, pw) ==
  Concat(Concat([i \in 1..Len(cs) |->
                  buildContentESCPOS(cs[i],
                                     escpos_charsPerLine(OrElse(pw, DEFAULTS_PAPER_WIDTH)))]))

\* buildESCPOSData(contents, paperWidth); paperWidth is optional
buildESCPOSData(cs, pw) ==
  LET cpl == escpos_charsPerLine(OrElse(pw, DEFAULTS_PAPER_WIDTH))
      buffers == <<CMD.INIT>>
                 \o Concat([i \in 1..Len(cs) |-> buildContentESCPOS(cs[i], cpl)])
  IN Concat(buffers)

----------------------------------------------------------------------------
(* Receipt builder (utils/receipt-builder.ts).  A builder b is the record of  *)
(* its fields together with the heap of the content items made so far; its    *)
(* contents field is the array of references to them.                         *)

\* new ReceiptBuilder(paperWidth), the argument optional
ReceiptBuilder(pw) ==
  LET width == OrElse(pw, DEFAULTS_PAPER_WIDTH)
  IN [heap |-> << >>, contents |-> << >>, paperWidth |-> width,
      charsPerLine |-> getCharsPerLine(width), currencyOptions |-> NoObject]

createReceipt(pw) == ReceiptBuilder(pw)

\* this.contents.push(item) with item a new object
push(b, item) ==
  [b EXCEPT !.heap = Append(@, item), !.contents = Append(@, Len(b.heap) + 1)]

\* an object literal { ...base, f: v } whose key f stays out when v is undefined
WithOpt(base, f, v) == IF v = << >> THEN base ELSE With(base, f, v[1])

\* a || d for a number
OrDefaultNum(a, d) == IF a = << >> \/ a = <<0>> THEN d ELSE a[1]

\* a || d for a string of a closed set
OrDefaultStr(a, d) == IF a = << >> \/ a = <<"">> THEN d ELSE a[1]

setCurrency(b, options) == [b EXCEPT !.currencyOptions = options]

text(b, value, style) == push(b, WithOpt([type |-> "text", value |-> value], "style", style))

textCenter(b, value, style) == text(b, value, <<With(OrElse(style, NoObject), "align", "center")>>)

textRight(b, value, style) == text(b, value, <<With(OrElse(style, NoObject), "align", "right")>>)

textBold(b, value, style) == text(b, value, <<With(OrElse(style, NoObject), "bold", TRUE)>>)

title(b, value) == text(b, value, <<[align |-> "center", bold |-> TRUE, size |-> "double"]>>)

subtitle(b, value) == text(b, value, <<[align |-> "center", bold |-> TRUE]>>)

line(b, character) == push(b, WithOpt([type |-> "line"], "character", character))

dashedLine(b) == line(b, <<<<"-">>>>)

doubleLine(b) == line(b, <<<<"=">>>>)

feed(b, lines) == push(b, [type |-> "feed", lines |-> OrElse(lines, FEED_LINES)])

cut(b, partial) == push(b, [type |-> "cut", partial |-> OrElse(partial, FALSE)])

\* a column given as a bare string
ColString(s) == [string |-> s]

\* a tableRow that starts a new table every time
tableRow_neverCoalesces(b, columns) ==
  push(b, [type |-> "table",
           rows |-> <<[i \in 1..Len(columns) |->
                        IF Has(columns[i], "string") THEN [text |-> columns[i].string]
                        ELSE columns[i]]>>])

tableRow(b, columns) ==
  LET row == [i \in 1..Len(columns) |->
                IF Has(columns[i], "string") THEN [text |-> columns[i].string]
                ELSE columns[i]]
      n == Len(b.contents)
  IN IF n > 0 /\ b.heap[b.contents[n]].type = "table"
     THEN [b EXCEPT !.heap[b.contents[n]].rows = Append(@, row)]
     ELSE push(b, [type |-> "table", rows |-> <<row>>])

row(b, label, value, labelBold) ==
  tableRow(b, <<[text |-> label, align |-> "left", bold |-> OrElse(labelBold, FALSE)],
                [text |-> value, align |-> "right"]>>)

Percent50 == [str |-> <<"5", "0", "%">>]

Percent15 == [str |-> <<"1", "5", "%">>]

Percent35 == [str |-> <<"3", "5", "%">>]

\* an item row whose price is formatted with the default options
itemRow_defaultCurrency(b, name, qty, price) ==
  tableRow(b, <<[text |-> name, width |-> Percent50, align |-> "left"],
                [text |-> IntToString(qty), width |-> Percent15, align |-> "center"],
                [text |-> formatCurrency(price, NoObject), width |-> Percent35,
                 align |-> "right"]>>)

itemRow(b, name, qty, price) ==
  tableRow(b, <<[text |-> name, width |-> Percent50, align |-> "left"],
                [text |-> IntToString(qty), width |-> Percent15, align |-> "center"],
                [text |-> formatCurrency(price, b.currencyOptions), width |-> Percent35,
                 align |-> "right"]>>)

totalRow(b, label, amount) ==
  tableRow(b, <<[text |-> label, align |-> "left", bold |-> TRUE],
                [text |-> formatCurrency(amount, b.currencyOptions), align |-> "right",
                 bold |-> TRUE]>>)

barcode(b, value, options) ==
  push(b, [type |-> "barcode", value |-> value,
           options |->
             [type |-> OrDefaultStr(OptField(options, "type"), "CODE128"),
              width |-> OrDefaultNum(OptField(options, "width"), BARCODE_WIDTH),
              height |-> OrDefaultNum(OptField(options, "height"), BARCODE_HEIGHT),
              showText |-> OrElse(OptField(options, "showText"), TRUE),
              textPosition |-> OrDefaultStr(OptField(options, "textPosition"), "below"),
              align |-> OrDefaultStr(OptField(options, "align"), "center")]])

qrcode(b, value, options) ==
  push(b, [type |-> "qrcode", value |-> value,
           options |->
             [size |-> OrDefaultNum(OptField(options, "size"), QR_SIZE),
              errorCorrection |->
                OrDefaultStr(OptField(options, "errorCorrection"), QR_ERROR_CORRECTION),
              align |-> OrDefaultStr(OptField(options, "align"), "center")]])

image(b, source, options) ==
  push(b, WithOpt([type |-> "image", source |-> source], "options", options))

raw(b, content) == push(b, content)

\* [...this.contents]: a new array of the same references
getContents(b) == b.contents

\* a clear that also forgets the currency options
clear_forgetsCurrency(b) == [b EXCEPT !.contents = << >>, !.currencyOptions = NoObject]

clear(b) == [b EXCEPT !.contents = << >>]

getPaperWidth(b) == b.paperWidth

builder_getCharsPerLine(b) == b.charsPerLine

\* the items an array of references stands for
Deref(h, refs) == [i \in 1..Len(refs) |-> h[refs[i]]]

\* a string that is present and not empty
Truthy(r, f) == Has(r, f) /\ r[f] # << >>

\* one call of a builder method, as fromData makes it
Call(name, args) == [k \in DOMAIN args \cup {"name"} |-> IF k = "name" THEN name ELSE args[k]]

\* the calls when the condition of their if statement holds
If(condition, cs) == IF condition THEN cs ELSE << >>

\* this.row(label, value)
RowCall(label, value) == Call("row", [label |-> label, value |-> value])

\* this.textCenter(line) for each of the lines
TextCenterCalls(lines) == [i \in 1..Len(lines) |-> Call("textCenter", [value |-> lines[i]])]

ItemsHeader ==
  <<[text |-> <<"I", "t", "e", "m">>, width |-> Percent50, align |-> "left",
     bold |-> TRUE],
    [text |-> <<"Q", "t", "y">>, width |-> Percent15, align |-> "center", bold |-> TRUE],
    [text |-> <<"P", "r", "i", "c", "e">>, width |-> Percent35, align |-> "right",
     bold |-> TRUE]>>

\* the calls fromData makes for the header
fromDataHeader(data) ==
  IF ~Has(data, "header") THEN << >>
  ELSE LET h == data.header
       IN If(Truthy(h, "logo"),
             <<Call("image", [source |-> h.logo, options |-> <<[align |-> "center"]>>])>>)
          \o If(Truthy(h, "title"), <<Call("title", [value |-> h.title])>>)
          \o If(Truthy(h, "subtitle"), <<Call("subtitle", [value |-> h.subtitle])>>)
          \o If(Has(h, "address"), TextCenterCalls(Field(h, "address", << >>)))
          \o If(Truthy(h, "phone"), <<Call("textCenter", [value |-> h.phone])>>)
          \o <<Call("line", [character |-> << >>])>>

\* the calls fromData makes for the meta information
fromDataMeta(data) ==
  IF ~Has(data, "meta") THEN << >>
  ELSE LET m == data.meta
       IN If(Truthy(m, "orderNumber"),
             <<RowCall(<<"O", "r", "d", "e", "r", " ", "#", ":">>, m.orderNumber)>>)
          \o If(Has(m, "date"),
                <<RowCall(<<"D", "a", "t", "e", ":">>, formatDate(m.date))>>)
          \o If(Truthy(m, "cashier"),
                <<RowCall(<<"C", "a", "s", "h", "i", "e", "r", ":">>, m.cashier)>>)
          \o If(Truthy(m, "customer"),
                <<RowCall(<<"C", "u", "s", "t", "o", "m", "e", "r", ":">>, m.customer)>>)
          \o <<Call("line", [character |-> << >>])>>

\* the calls fromData makes for the items header and the items
fromDataItems(data) ==
  <<Call("tableRow", [columns |-> ItemsHeader]), Call("dashedLine", NoObject)>>
  \o [i \in 1..Len(data.items) |->
        Call("itemRow", [itemName |-> data.items[i].name,
                         qty |-> data.items[i].quantity,
                         price |-> data.items[i].price])]
  \o <<Call("line", [character |-> << >>])>>

\* the calls fromData makes for the totals, cur being this.currencyOptions
fromDataTotals(data, cur) ==
  IF ~Has(data, "totals") THEN << >>
  ELSE LET t == data.totals
       IN If(Has(t, "subtotal"),
             <<RowCall(<<"S", "u", "b", "t", "o", "t", "a", "l", ":">>,
                       formatCurrency(t.subtotal, cur))>>)
          \o If(Has(t, "tax"),
                <<RowCall(<<"T", "a", "x", ":">>, formatCurrency(t.tax, cur))>>)
          \o If(Has(t, "discount") /\ t.discount > 0,
                <<RowCall(<<"D", "i", "s", "c", "o", "u", "n", "t", ":">>,
                          <<"-">> \o formatCurrency(t.discount, cur))>>)
          \o <<Call("doubleLine", NoObject),
               Call("totalRow", [label |-> <<"T", "O", "T", "A", "L", ":">>,
                                 amount |-> t.total])>>

\* the calls fromData makes for the payment
fromDataPayment(data, cur) ==
  IF ~Has(data, "payment") THEN << >>
  ELSE LET p == data.payment
       IN <<Call("feed", [lines |-> <<1>>]),
            RowCall(<<"P", "a", "y", "m", "e", "n", "t", ":">>, p.method),
            RowCall(<<"A", "m", "o", "u", "n", "t", ":">>, formatCurrency(p.amount, cur))>>
          \o If(Has(p, "change") /\ p.change > 0,
                <<RowCall(<<"C", "h", "a", "n", "g", "e", ":">>,
                          formatCurrency(p.change, cur))>>)

\* a footer whose separator line comes before its feed
fromDataFooter_lineFirst(data) ==
  If(Has(data, "footer") /\ Len(data.footer) > 0,
     <<Call("line", [character |-> << >>]), Call("feed", [lines |-> <<1>>])>>
     \o TextCenterCalls(data.footer))

\* the calls fromData makes for the footer
fromDataFooter(data) ==
  If(Has(data, "footer") /\ Len(data.footer) > 0,
     <<Call("feed", [lines |-> <<1>>]), Call("line", [character |-> << >>])>>
     \o TextCenterCalls(data.footer))

\* the builder after one of the calls fromData makes
Invoke(b, c) ==
  CASE c.name = "image" -> image(b, c.source, c.options)
    [] c.name = "title" -> title(b, c.value)
    [] c.name = "subtitle" -> subtitle(b, c.value)
    [] c.name = "textCenter" -> textCenter(b, c.value, << >>)
    [] c.name = "line" -> line(b, c.character)
    [] c.name = "dashedLine" -> dashedLine(b)
    [] c.name = "doubleLine" -> doubleLine(b)
    [] c.name = "row" -> row(b, c.label, c.value, << >>)
    [] c.name = "tableRow" -> tableRow(b, c.columns)
    [] c.name = "itemRow" -> itemRow(b, c.itemName, c.qty, c.price)
    [] c.name = "totalRow" -> totalRow(b, c.label, c.amount)
    [] c.name = "feed" -> feed(b, c.lines)
    [] c.name = "cut" -> cut(b, << >>)

\* the builder after the calls cs, made in order
RECURSIVE InvokeAll(_, _)
InvokeAll(b, cs) == IF cs = << >> THEN b ELSE InvokeAll(Invoke(b, cs[1]), Tail(cs))

fromData(b, data) ==
  InvokeAll(b, fromDataHeader(data)
               \o fromDataMeta(data)
               \o fromDataItems(data)
               \o fromDataTotals(data, b.currencyOptions)
               \o fromDataPayment(data, b.currencyOptions)
               \o fromDataFooter(data)
               \o <<Call("feed", [lines |-> << >>]), Call("cut", NoObject)>>)

----------------------------------------------------------------------------
(* The builder as a state machine: one action per public method, applied to   *)
(* the one builder made at the start.                                         *)

This ==
  [heap |-> heap, contents |-> contents, paperWidth |-> paperWidth,
   charsPerLine |-> charsPerLine, currencyOptions |-> currencyOptions]

RetThis == [kind |-> "this"]

RetValue(v) == [kind |-> "value", value |-> v]

NoCall == [fn |-> "none"]

Pending == [done |-> FALSE, previous |-> << >>]

Done(v) == [done |-> TRUE, value |-> v]

\* the method op ran, left the builder as b and returned the builder
Becomes(b, op) ==
  /\ ops < MaxOps
  /\ heap' = b.heap
  /\ contents' = b.contents
  /\ paperWidth' = b.paperWidth
  /\ charsPerLine' = b.charsPerLine
  /\ currencyOptions' = b.currencyOptions
  /\ ret' = RetThis
  /\ calls' = Append(calls, op)
  /\ UNCHANGED <<paperArg, taken, call, result>>

\* the method op ran, changed nothing and returned v
Returns(v, op) ==
  /\ ops < MaxOps
  /\ ret' = RetValue(v)
  /\ calls' = Append(calls, op)
  /\ UNCHANGED <<heap, contents, paperWidth, charsPerLine, currencyOptions, paperArg,
                 taken, call, result>>

Op(name) == [name |-> name]

PaperArgs == {<< >>, <<58>>, <<80>>}

SampleText == <<"H", "i">>

SampleStyles == {<< >>, <<[underline |-> TRUE]>>}

SampleCurrency == [symbol |-> <<"$">>, decimals |-> 0]

SampleColumns == {<<ColString(<<"a">>), [text |-> <<"b">>, align |-> "right"]>>}

SampleData ==
  [items |-> <<[name |-> <<"T", "e", "a">>, quantity |-> 2, price |-> 150]>>,
   totals |-> [total |-> 300]]

InitBuilder ==
  /\ paperArg \in PaperArgs
  /\ LET b == createReceipt(paperArg)
     IN /\ heap = b.heap
        /\ contents = b.contents
        /\ paperWidth = b.paperWidth
        /\ charsPerLine = b.charsPerLine
        /\ currencyOptions = b.currencyOptions
  /\ taken = << >>
  /\ ret = [kind |-> "new"]
  /\ calls = <<Op("createReceipt")>>

Init ==
  /\ InitBuilder
  /\ call = NoCall
  /\ result = Pending

SetCurrency == Becomes(setCurrency(This, SampleCurrency), Op("setCurrency"))

Text == \E style \in SampleStyles : Becomes(text(This, SampleText, style), Op("text"))

TextCenter == Becomes(textCenter(This, SampleText, << >>), Op("textCenter"))

TextRight == Becomes(textRight(This, SampleText, << >>), Op("textRight"))

TextBold == Becomes(textBold(This, SampleText, << >>), Op("textBold"))

Title == Becomes(title(This, SampleText), Op("title"))

Subtitle == Becomes(subtitle(This, SampleText), Op("subtitle"))

Line == Becomes(line(This, << >>), Op("line"))

DashedLine == Becomes(dashedLine(This), Op("dashedLine"))

DoubleLine == Becomes(doubleLine(This), Op("doubleLine"))

Feed == Becomes(feed(This, << >>), Op("feed"))

Cut == Becomes(cut(This, << >>), Op("cut"))

TableRow ==
  \E columns \in SampleColumns :
    Becomes(tableRow(This, columns), [name |-> "tableRow", columns |-> columns])

Row == Becomes(row(This, SampleText, SampleText, << >>), Op("row"))

ItemRow == Becomes(itemRow(This, SampleText, 2, 150), Op("itemRow"))

TotalRow == Becomes(totalRow(This, SampleText, 300), Op("totalRow"))

Barcode == Becomes(barcode(This, <<"1", "2">>, << >>), Op("barcode"))

Qrcode == Becomes(qrcode(This, SampleText, << >>), Op("qrcode"))

Image == Becomes(image(This, SampleText, << >>), Op("image"))

Raw == Becomes(raw(This, [type |-> "table", rows |-> << >>]), Op("raw"))

FromData == Becomes(fromData(This, SampleData), Op("fromData"))

Clear == Becomes(clear(This), Op("clear"))

GetContents ==
  /\ ops < MaxOps
  /\ taken' = <<getContents(This)>>
  /\ ret' = RetValue(getContents(This))
  /\ calls' = Append(calls, Op("getContents"))
  /\ UNCHANGED <<heap, contents, paperWidth, charsPerLine, currencyOptions, paperArg,
                 call, result>>

GetPaperWidth == Returns(getPaperWidth(This), Op("getPaperWidth"))

GetCharsPerLine == Returns(builder_getCharsPerLine(This), Op("getCharsPerLine"))

Next ==
  \/ SetCurrency
  \/ Text
  \/ TextCenter
  \/ TextRight
  \/ TextBold
  \/ Title
  \/ Subtitle
  \/ Line
  \/ DashedLine
  \/ DoubleLine
  \/ Feed
  \/ Cut
  \/ TableRow
  \/ Row
  \/ ItemRow
  \/ TotalRow
  \/ Barcode
  \/ Qrcode
  \/ Image
  \/ Raw
  \/ FromData
  \/ Clear
  \/ GetContents
  \/ GetPaperWidth
  \/ GetCharsPerLine

Spec == Init /\ [][Next]_vars

----------------------------------------------------------------------------
(* Properties of the builder, under Spec *)

\* the items of the builder's sequence, in print order
Items == Deref(heap, contents)

\* the names of the calls made on the builder, in call order
CallNames == [i \in 1..ops |-> calls[i + 1].name]

\* the row a column list stands for: a bare string is a column with that text
RowOf(columns) ==
  [i \in 1..Len(columns) |->
     IF Has(columns[i], "string") THEN [text |-> columns[i].string] ELSE columns[i]]

LastIsTable == Len(contents) > 0 /\ Items[Len(contents)].type = "table"

\* one step of tableRow(columns): coalesce into the last table or start a new one
TableRowStep ==
  (calls' # calls /\ lastOp'.name = "tableRow") =>
    LET n == Len(contents)
        newRow == RowOf(lastOp'.columns)
    IN IF LastIsTable
       THEN /\ contents' = contents
            /\ Items' = [Items EXCEPT ![n].rows = Append(@, newRow)]
       ELSE /\ Len(contents') = n + 1
            /\ SubSeq(contents', 1, n) = contents
            /\ SubSeq(Items', 1, n) = Items
            /\ Items'[n + 1] = [type |-> "table", rows |-> <<newRow>>]

TwoRowsOneTable ==
  CallNames = <<"tableRow", "tableRow">> =>
    /\ Len(Items) = 1
    /\ Items[1].type = "table"
    /\ Len(Items[1].rows) = 2

TextSeparatesTables ==
  CallNames = <<"tableRow", "text", "tableRow">> =>
    /\ Len(Items) = 3
    /\ Items[1].type = "table" /\ Len(Items[1].rows) = 1
    /\ Items[2].type = "text"
    /\ Items[3].type = "table" /\ Len(Items[3].rows) = 1

\* C1: tableRow(columns) looks only at the last item: when the last item is a
\* Table the sequence keeps its length and that table gains the new row at the
\* end of its rows; otherwise the sequence grows by one Table holding only the
\* new row.  Two tableRow calls in a row give one Table of 2 rows; a text()
\* between them gives two Table items.
C1_TableRowCoalescing ==
  [][TableRowStep]_vars /\ [](TwoRowsOneTable /\ TextSeparatesTables)

\* C1 witness: a text, then a tableRow that starts a table, then a tableRow
\* that coalesces into it
C1_Witness ==
  /\ CallNames = <<"text", "tableRow", "tableRow">>
  /\ Len(Items) = 2
  /\ Len(Items[2].rows) = 2

\* the chars-per-line the encoder composes a Line item with
EncoderLineWidth(pw) == Len(buildESCPOSData(<<[type |-> "line"]>>, pw)) - 3

\* C6: chars-per-line is 32 for 58 mm and 48 for 80 mm, and the builder's
\* getCharsPerLine(), the layout engine's getCharsPerLine, the printer module's
\* getCharsPerLine and the encoder's line width agree for the same paper
\* width; a builder created without a paper width uses 80 mm (48).
C6_CharsPerLineAgree ==
  /\ paperWidth \in {58, 80}
  /\ charsPerLine = (IF paperWidth = 58 THEN 32 ELSE 48)
  /\ builder_getCharsPerLine(This) = charsPerLine
  /\ getCharsPerLine(paperWidth) = charsPerLine
  /\ printer_getCharsPerLine(paperWidth) = charsPerLine
  /\ escpos_charsPerLine(paperWidth) = charsPerLine
  /\ paperArg = << >> => (paperWidth = 80 /\ charsPerLine = 48)
  /\ lastOp.name = "getCharsPerLine" =>
       /\ ret = RetValue(charsPerLine)
       /\ EncoderLineWidth(<<paperWidth>>) = ret.value
       /\ EncoderLineWidth(paperArg) = ret.value
  /\ lastOp.name = "getPaperWidth" => ret = RetValue(paperWidth)

\* C6 witness: getCharsPerLine() of a builder created without a paper width
C6_Witness ==
  /\ paperArg = << >>
  /\ lastOp.name = "getCharsPerLine"
  /\ ret = RetValue(48)

\* the methods that push exactly one item
AppendNames ==
  {"text", "textCenter", "textRight", "textBold", "title", "subtitle", "line",
   "dashedLine", "doubleLine", "feed", "cut", "barcode", "qrcode", "image", "raw"}

\* the methods that add one table row
RowNames == {"tableRow", "row", "itemRow", "totalRow"}

\* the kind of item an appending method pushes
KindOf(name) ==
  CASE name \in {"text", "textCenter", "textRight", "textBold", "title", "subtitle"}
         -> "text"
    [] name \in {"line", "dashedLine", "doubleLine"} -> "line"
    [] name = "raw" -> "table"
    [] OTHER -> name

\* rows is earlier with zero or more rows added at its end
RowsExtend(earlier, rows) ==
  Len(rows) >= Len(earlier) /\ SubSeq(rows, 1, Len(earlier)) = earlier

\* the sequence grew by exactly one item, put last, and nothing else changed
GrewByOne ==
  /\ Len(contents') = Len(contents) + 1
  /\ SubSeq(contents', 1, Len(contents)) = contents
  /\ SubSeq(Items', 1, Len(contents)) = Items

\* every item already in the sequence is still there, at its place, the same
\* but for rows added to a last Table
NothingRemoved ==
  /\ Len(contents') >= Len(contents)
  /\ SubSeq(contents', 1, Len(contents)) = contents
  /\ \A i \in 1..Len(contents) :
       \/ Items'[i] = Items[i]
       \/ /\ i = Len(contents)
          /\ Items[i].type = "table"
          /\ Items'[i].type = "table"
          /\ RowsExtend(Items[i].rows, Items'[i].rows)

AppendOnlyStep ==
  (calls' # calls) =>
    LET name == lastOp'.name
    IN /\ name \in AppendNames \cup RowNames \cup {"fromData"} => ret' = RetThis
       /\ name \in AppendNames => GrewByOne /\ Items'[Len(contents')].type = KindOf(name)
       /\ (name \in RowNames /\ ~LastIsTable) =>
            GrewByOne /\ Items'[Len(contents')].type = "table"
       /\ (name \in RowNames /\ LastIsTable) => contents' = contents
       /\ name # "clear" => NothingRemoved
       /\ name = "clear" =>
            /\ contents' = << >>
            /\ paperWidth' = paperWidth
            /\ charsPerLine' = charsPerLine
            /\ currencyOptions' = currencyOptions

ChainInCallOrder ==
  (\A i \in 1..ops : CallNames[i] \in AppendNames) =>
    /\ Len(Items) = ops
    /\ \A i \in 1..ops : Items[i].type = KindOf(CallNames[i])

\* C7: every append returns the builder; every append other than a coalescing
\* tableRow makes the sequence one longer with the new item last; only clear()
\* removes, reorders or replaces items, and clear() empties the sequence and
\* keeps paper width and currency options; n non-table appends on a new
\* builder give n items in call order.
C7_AppendOnly == [][AppendOnlyStep]_vars /\ []ChainInCallOrder

\* C7 witness: currency set, an item appended, then clear()
C7_Witness ==
  /\ CallNames = <<"setCurrency", "text", "clear">>
  /\ contents = << >>
  /\ currencyOptions = SampleCurrency

\* C8: once a sequence was taken with getContents(), no later builder call
\* changes its length or any of its items, the rows of its Tables included.
C8_TakenIsReadOnly ==
  [][taken # << >> => Deref(heap', taken[1]) = Deref(heap, taken[1])]_vars

\* C8: a taken sequence whose Table has gained a row after it was taken
C8_TakenTableGrew ==
  /\ CallNames = <<"row", "getContents", "row">>
  /\ taken # << >>
  /\ Len(Deref(heap, taken[1])[1].rows) = 2

----------------------------------------------------------------------------
(* The encoder applied to content sequences: the input is drawn at the start, *)
(* BuildESCPOSData encodes it, and may encode it once more.                    *)

Bools == {TRUE, FALSE}

\* every combination of the style fields of a Text item, each set or not
TextStyles ==
  {<< >>} \cup
  {<<[k \in ks |-> IF k = "align" THEN a
                   ELSE IF k = "size" THEN z
                   ELSE IF k = "bold" THEN bo
                   ELSE IF k = "underline" THEN un ELSE iv]>> :
     ks \in SUBSET {"align", "size", "bold", "underline", "invert"},
     a \in {"left", "center", "right"},
     z \in {"normal", "double", "double-height", "double-width"},
     bo \in Bools, un \in Bools, iv \in Bools}

LineCharacters ==
  {<< >>, <<<< >>>>, <<<<"-">>>>, <<<<"=">>>>, <<<<"*">>>>, <<<<"U+2500">>>>,
   <<<<"a", "b">>>>}

SampleRows ==
  {<< >>,
   <<<<[text |-> <<"a">>], [text |-> <<"b">>, align |-> "right"]>>>>,
   <<<<[text |-> <<"a">>, bold |-> TRUE], [text |-> <<"b">>, align |-> "center"]>>,
     <<[text |-> <<"c">>, width |-> [num |-> 40], bold |-> FALSE],
       [text |-> <<"d", "e">>, width |-> Percent50, bold |-> TRUE]>>>>}

BarcodeOptionSets ==
  {[type |-> t, align |-> a] : t \in {"CODE128", "EAN13", "QR"},
                               a \in {"left", "center", "right"}}
  \cup {[type |-> "CODE39"],
        [type |-> "CODE128", width |-> 9, height |-> 300, textPosition |-> "none"]}

QRCodeOptionSets ==
  {<< >>} \cup
  {<<[align |-> a]>> : a \in {"left", "center", "right"}} \cup
  {<<[size |-> 20, errorCorrection |-> "H"]>>} \cup
  {<<WithOpt(WithOpt(NoObject, "size", z), "errorCorrection", e)>> :
     z \in {<< >>, <<-2>>, <<0>>, <<1>>, <<6>>, <<16>>, <<17>>},
     e \in {<< >>, <<"L">>, <<"M">>, <<"Q">>, <<"H">>, <<"X">>}}

\* the string of n characters c, built by halves
RECURSIVE Chars(_, _)
Chars(c, n) ==
  IF n = 0 THEN << >>
  ELSE IF n = 1 THEN <<c>>
  ELSE Chars(c, n \div 2) \o Chars(c, n - (n \div 2))

\* values of no, of a few and of about 65535 bytes, with characters of one, two
\* and three bytes
QRValues ==
  {<< >>, <<"U+00E9", "U+2500", "a">>}
  \cup {Chars("1", n) : n \in {252, 253}}
  \cup {Chars("U+2500", n) : n \in {21844, 21845}}

\* columns with and without text, width, alignment and bold; texts shorter and
\* longer than the width
TableColumns ==
  {[text |-> <<"a", "b">>],
   [text |-> << >>, align |-> "right"],
   [align |-> "center", bold |-> FALSE],
   [text |-> <<"a", "b", "c">>, width |-> [num |-> 2], bold |-> TRUE],
   [text |-> <<"a", "b", "c">>, width |-> [num |-> 0]],
   [text |-> <<"a", "b", "c">>, width |-> [num |-> 6], align |-> "center"],
   [text |-> <<"a">>, width |-> [num |-> 40], align |-> "right"],
   [text |-> <<"a", "b">>, width |-> [num |-> 50]],
   [text |-> <<"a">>, width |-> [str |-> <<"1", "2", "0", "%">>], align |-> "center"],
   [text |-> <<"a", "b">>, width |-> [str |-> <<"5", "0", "%">>], align |-> "left"],
   [text |-> <<"U+00E9">>, width |-> [str |-> <<"1", "5", "%">>], align |-> "center",
    bold |-> TRUE]}

\* rows of one and of two columns
TableRows == UNION {[1..n -> TableColumns] : n \in 1..2}

\* tables of one row, and of two rows of which the first, the second, both or
\* none is bold
Tables ==
  {<<r>> : r \in TableRows}
  \cup {<<r1, r2>> : r1 \in {<<c>> : c \in TableColumns},
                     r2 \in {<<[text |-> <<"a", "b">>]>>,
                             <<[text |-> <<"a">>, bold |-> TRUE]>>}}

\* heights and widths below, at and above the limits of the protocol
BarcodeSizes ==
  {WithOpt(WithOpt([type |-> "CODE128"], "height", h), "width", w) :
     h \in {<< >>, <<-1>>, <<0>>, <<1>>, <<255>>, <<256>>},
     w \in {<< >>, <<-3>>, <<0>>, <<1>>, <<2>>, <<6>>, <<7>>}}

\* every text position, given or not, with showText absent, true and false
BarcodeTextOptions ==
  {WithOpt(WithOpt([type |-> "CODE128"], "textPosition", p), "showText", sh) :
     p \in {<< >>, <<"none">>, <<"above">>, <<"below">>, <<"both">>},
     sh \in {<< >>, <<TRUE>>, <<FALSE>>}}

\* the nine symbologies and two unknown ones
Symbologies ==
  {"UPC-A", "UPC-E", "EAN13", "EAN8", "CODE39", "ITF", "CODABAR", "CODE93", "CODE128",
   "QR", "CODE11"}

\* values of no, of a few and of about 255 characters
BarcodeValues ==
  {Repeat(<<"1">>, n) : n \in {0, 2, 253, 254, 255, 256}}

\* the Table items a new builder holds after one call of row, itemRow,
\* totalRow, or tableRow with the items header of fromData; texts shorter and
\* longer than their columns
BuiltTables ==
  {Deref(b.heap, b.contents)[1] :
     b \in {row(ReceiptBuilder(<< >>), l, v, << >>) :
              l \in {<<"T", "a", "x", ":">>, Chars("x", 30)},
              v \in {<< >>, <<"1", ".", "5", "0">>, Chars("9", 30)}}
           \cup {itemRow(ReceiptBuilder(<< >>), n, q, pr) :
                   n \in {<<"T", "e", "a">>, Chars("x", 30)},
                   q \in {2, 12345678},
                   pr \in {150, 123456789}}
           \cup {totalRow(ReceiptBuilder(<< >>), l, a) :
                   l \in {<<"T", "O", "T", "A", "L", ":">>, Chars("x", 30)},
                   a \in {300, 123456789}}
           \cup {tableRow(ReceiptBuilder(<< >>), ItemsHeader)}}

\* the single items the encoder is given
SingleItems ==
  BuiltTables \cup
  {WithOpt([type |-> "text", value |-> v], "style", st) :
     v \in {<< >>, <<"U+00E9", "a">>}, st \in {<< >>, <<[bold |-> TRUE]>>}}
  \cup {[type |-> "table", rows |-> r] : r \in Tables}
  \cup {WithOpt([type |-> "feed"], "lines", n) : n \in {<<-5>>, <<3>>, <<255>>, <<256>>}}
  \cup {[type |-> "barcode", value |-> <<"1", "2">>, options |-> o] : o \in BarcodeSizes}
  \cup {[type |-> "barcode", value |-> v, options |-> [type |-> t]] :
          v \in BarcodeValues, t \in {"CODE128", "CODE39"}}
  \cup {[type |-> "barcode", value |-> <<"1", "2">>, options |-> o] :
          o \in BarcodeTextOptions}
  \cup {[type |-> "barcode", value |-> <<"1", "2">>,
          options |-> WithOpt([type |-> t], "align", a)] :
          t \in Symbologies, a \in {<< >>, <<"right">>}}
  \cup
  {WithOpt([type |-> "text", value |-> SampleText], "style", st) : st \in TextStyles}
  \cup {WithOpt([type |-> "line"], "character", c) : c \in LineCharacters}
  \cup {[type |-> "table", rows |-> r] : r \in SampleRows}
  \cup {WithOpt([type |-> "feed"], "lines", n) : n \in {<< >>, <<0>>, <<1>>, <<300>>}}
  \cup {WithOpt([type |-> "cut"], "partial", c) : c \in {<< >>, <<TRUE>>, <<FALSE>>}}
  \cup {[type |-> "barcode", value |-> <<"1", "2">>, options |-> o] :
          o \in BarcodeOptionSets}
  \cup {WithOpt([type |-> "qrcode", value |-> SampleText], "options", o) :
          o \in QRCodeOptionSets}
  \cup {WithOpt([type |-> "qrcode", value |-> v], "options", o) :
          v \in QRValues, o \in {<< >>, <<[align |-> "right"]>>}}
  \cup {[type |-> "image", source |-> SampleText]}
  \cup {[type |-> "video"]}

\* one item of each kind, from which longer sequences are made
CoreItems ==
  <<[type |-> "text", value |-> SampleText],
    [type |-> "text", value |-> SampleText,
     style |-> [align |-> "right", size |-> "double", bold |-> TRUE,
                underline |-> TRUE, invert |-> TRUE]],
    [type |-> "line"],
    [type |-> "table",
     rows |-> <<<<[text |-> <<"a">>, bold |-> TRUE], [text |-> <<"b">>]>>>>],
    [type |-> "feed", lines |-> 1],
    [type |-> "cut", partial |-> FALSE],
    [type |-> "barcode", value |-> <<"1", "2">>,
     options |-> [type |-> "CODE128", align |-> "center"]],
    [type |-> "qrcode", value |-> SampleText, options |-> [align |-> "center"]],
    [type |-> "image", source |-> SampleText],
    [type |-> "video"]>>

CoreSequences ==
  UNION {{[i \in 1..k |-> CoreItems[f[i]]] : f \in [1..k -> 1..Len(CoreItems)]} :
           k \in 0..MaxEncodeLen}

EncodeCalls ==
  {[fn |-> "buildESCPOSData", contents |-> cs, paperWidth |-> pw] :
     cs \in CoreSequences \cup {<<item>> : item \in SingleItems}, pw \in PaperArgs}

\* the builder is not used: it stays as it was made
IdleBuilder ==
  /\ paperArg = << >>
  /\ InitBuilder

InitEncode ==
  /\ IdleBuilder
  /\ call \in EncodeCalls
  /\ result = Pending

BuildESCPOSData ==
  /\ call.fn = "buildESCPOSData"
  /\ result.previous = << >>
  /\ result' = [done |-> TRUE,
                value |-> buildESCPOSData(call.contents, call.paperWidth),
                previous |-> IF result.done THEN <<result.value>> ELSE << >>]
  /\ UNCHANGED <<builderVars, call>>

NextEncode == BuildESCPOSData

SpecEncode == InitEncode /\ [][NextEncode]_vars

----------------------------------------------------------------------------
(* Properties of the encoder, under SpecEncode *)

Encoded == call.fn = "buildESCPOSData" /\ result.done

KnownTags == {"text", "line", "table", "feed", "cut", "barcode", "qrcode", "image"}

\* what one item alone adds to the output for a paper width: the encoding of
\* the one-item sequence after its initialization command
ItemEncoding(item, pw) ==
  LET alone == buildESCPOSData(<<item>>, pw)
  IN SubSeq(alone, 3, Len(alone))

\* the items of cs whose tag is of the closed set
KnownOnly(cs) == SelectSeq(cs, LAMBDA item : item.type \in KnownTags)

\* C3: the output is ESC 40 followed by the concatenation, in content order,
\* of each item's own encoding, which depends on the item and the paper width
\* only; an item of an unknown tag adds no bytes; the empty sequence gives
\* exactly ESC 40; encoding the same input twice gives the same bytes.
C3_InitThenItemsInOrder ==
  Encoded =>
    LET cs == call.contents
        pw == call.paperWidth
        out == result.value
    IN /\ Len(out) >= 2 /\ out[1] = 27 /\ out[2] = 64
       /\ out = <<27, 64>> \o Concat([i \in 1..Len(cs) |-> ItemEncoding(cs[i], pw)])
       /\ \A i \in 1..Len(cs) : cs[i].type \notin KnownTags => ItemEncoding(cs[i], pw) = << >>
       /\ out = buildESCPOSData(KnownOnly(cs), pw)
       /\ cs = << >> => out = <<27, 64>>
       /\ result.previous # << >> => result.previous[1] = out

\* C3 witness: an item of an unknown tag and a line, encoded twice
C3_Witness ==
  /\ Encoded
  /\ Len(call.contents) = 2
  /\ call.contents[1].type = "video"
  /\ call.contents[2].type = "line"
  /\ result.previous # << >>
  /\ Len(result.value) > 2

\* the style state of a printer
DefaultStyle ==
  [align |-> "left", bold |-> FALSE, underline |-> FALSE, invert |-> FALSE,
   size |-> "normal"]

ByteAt(bytes, i) == IF i <= Len(bytes) THEN bytes[i] ELSE 0

\* the place of the first command at or after from, 0 when there is none
NextCommandAt(bytes, from) ==
  LET at == {i \in from..Len(bytes) : bytes[i] \in {ESC, GS}}
  IN IF at = {} THEN 0 ELSE CHOOSE i \in at : \A k \in at : i <= k

\* the number of bytes of the command that starts at i
CommandLength(bytes, i) ==
  LET c == ByteAt(bytes, i + 1)
  IN IF bytes[i] = ESC THEN (IF c = 64 THEN 2 ELSE 3)
     ELSE IF c = 86 THEN (IF ByteAt(bytes, i + 2) \in {65, 66} THEN 4 ELSE 3)
     ELSE IF c = 107 THEN 4 + ByteAt(bytes, i + 3)
     ELSE IF c = 40 THEN 5 + ByteAt(bytes, i + 3) + 256 * ByteAt(bytes, i + 4)
     ELSE 3

\* bit k of n
Bit(n, k) == (n \div Pow2(k)) % 2 = 1

\* the style state after the command that starts at i
AfterCommand(style, bytes, i) ==
  LET c == ByteAt(bytes, i + 1)
      n == ByteAt(bytes, i + 2)
  IN IF bytes[i] = ESC /\ c = 64 THEN DefaultStyle
     ELSE IF bytes[i] = ESC /\ c = 97
     THEN [style EXCEPT !.align = IF n \in {1, 49} THEN "center"
                                  ELSE IF n \in {2, 50} THEN "right" ELSE "left"]
     ELSE IF bytes[i] = ESC /\ c = 69 THEN [style EXCEPT !.bold = Bit(n, 0)]
     ELSE IF bytes[i] = ESC /\ c = 45
     THEN [style EXCEPT !.underline = n \in {1, 2, 49, 50}]
     ELSE IF bytes[i] = ESC /\ c = 33
     THEN [style EXCEPT !.bold = Bit(n, 3),
                        !.underline = Bit(n, 7),
                        !.size = IF Bit(n, 4) /\ Bit(n, 5) THEN "double"
                                 ELSE IF Bit(n, 4) THEN "double-height"
                                 ELSE IF Bit(n, 5) THEN "double-width" ELSE "normal"]
     ELSE IF bytes[i] = GS /\ c = 66 THEN [style EXCEPT !.invert = Bit(n, 0)]
     ELSE style

\* the style state after bytes from place i on, read as commands and text
RECURSIVE Interpret(_, _, _)
Interpret(bytes, i, style) ==
  LET j == NextCommandAt(bytes, i)
  IN IF j = 0 THEN style
     ELSE Interpret(bytes, j + CommandLength(bytes, j), AfterCommand(style, bytes, j))

\* the style state after the initialization and the first k items
RECURSIVE StyleAfter(_, _, _)
StyleAfter(cs, pw, k) ==
  IF k = 0 THEN Interpret(CMD.INIT, 1, DefaultStyle)
  ELSE Interpret(ItemEncoding(cs[k], pw), 1, StyleAfter(cs, pw, k - 1))

\* the style state while the text of a Text item alone is printed
StyleAtText(item, pw) ==
  LET bytes == ItemEncoding(item, pw)
      upTo == CHOOSE i \in 1..Len(bytes) :
                /\ bytes[i] = LF
                /\ \A k \in 1..(i - 1) : bytes[k] # LF
  IN Interpret(SubSeq(bytes, 1, upTo), 1, DefaultStyle)

\* C4: read as commands on a printer with style state (alignment, bold,
\* underline, invert, size), the output leaves the default state (left, all
\* off, normal size) after the bytes of every item, of every kind and with
\* every combination of the style fields.
C4_NoStylePersists ==
  Encoded =>
    \A k \in 0..Len(call.contents) :
      StyleAfter(call.contents, call.paperWidth, k) = DefaultStyle

\* C4 witness: a Text item with every style field set, printed right-aligned,
\* bold, underlined, inverted and double-sized, after which the state is the
\* default one
C4_Witness ==
  /\ Encoded
  /\ Len(call.contents) = 1
  /\ call.contents[1].type = "text"
  /\ Has(call.contents[1], "style")
  /\ StyleAtText(call.contents[1], call.paperWidth) =
       [align |-> "right", bold |-> TRUE, underline |-> TRUE, invert |-> TRUE,
        size |-> "double"]
  /\ StyleAfter(call.contents, call.paperWidth, 1) = DefaultStyle

\* the number of characters UTF-8 bytes stand for
CharCount(bytes) ==
  Cardinality({i \in 1..Len(bytes) : bytes[i] < 128 \/ bytes[i] >= 192})

\* C5: the encoding of a Line item is its fill ('-' when none is given)
\* repeated so that exactly chars-per-line characters precede the line feed,
\* 48 on 80 mm and 32 on 58 mm paper, whatever the fill.
C5_LineFillsTheLine ==
  (Encoded /\ Len(call.contents) = 1 /\ call.contents[1].type = "line") =>
    LET bytes == SubSeq(result.value, 3, Len(result.value))
        cpl == IF call.paperWidth = <<58>> THEN 32 ELSE 48
    IN /\ Len(bytes) >= 1
       /\ bytes[Len(bytes)] = LF
       /\ CharCount(SubSeq(bytes, 1, Len(bytes) - 1)) = cpl

\* C5: a Line item with a fill of two characters, encoded to twice the line
C5_TwoCharacterFill ==
  /\ Encoded
  /\ call.contents = <<[type |-> "line", character |-> <<"a", "b">>]>>
  /\ call.paperWidth = <<80>>
  /\ CharCount(result.value) = 2 + 96 + 1

\* one item was encoded alone: the bytes after the initialization command
EncodedAlone(type) ==
  Encoded /\ Len(call.contents) = 1 /\ call.contents[1].type = type

ItemBytes == SubSeq(result.value, 3, Len(result.value))

\* the place of the first line feed
FirstLF(bytes) ==
  CHOOSE i \in 1..Len(bytes) : bytes[i] = LF /\ \A k \in 1..(i - 1) : bytes[k] # LF

\* the number of three-byte commands bytes begin with
LeadingCommands(bytes) ==
  CHOOSE n \in 0..(Len(bytes) \div 3) :
    /\ \A k \in 1..n : bytes[3 * k - 2] \in {ESC, GS}
    /\ n < Len(bytes) \div 3 => bytes[3 * n + 1] \notin {ESC, GS}

\* bytes cut into pieces of three
InThrees(bytes) == [k \in 1..(Len(bytes) \div 3) |-> SubSeq(bytes, 3 * k - 2, 3 * k)]

\* the commands before the text of a Text item, its text, and the commands
\* after the line feed
SetCommands == InThrees(SubSeq(ItemBytes, 1, 3 * LeadingCommands(ItemBytes)))

TextBytes == SubSeq(ItemBytes, 3 * LeadingCommands(ItemBytes) + 1, FirstLF(ItemBytes) - 1)

ResetCommands == InThrees(SubSeq(ItemBytes, FirstLF(ItemBytes) + 1, Len(ItemBytes)))

SizeCommands == {CMD.SIZE_DOUBLE, CMD.SIZE_DOUBLE_HEIGHT, CMD.SIZE_DOUBLE_WIDTH}

\* the place of a command in the order of the commands before the text
SetRank(c) ==
  CASE c \in {CMD.ALIGN_LEFT, CMD.ALIGN_CENTER, CMD.ALIGN_RIGHT} -> 1
    [] c \in SizeCommands -> 2
    [] c = CMD.BOLD_ON -> 3
    [] c = CMD.UNDERLINE_ON -> 4
    [] c = CMD.INVERT_ON -> 5
    [] OTHER -> 0

\* the place of a command in the order of the commands after the text
ResetRank(c) ==
  CASE c = CMD.BOLD_OFF -> 1
    [] c = CMD.UNDERLINE_OFF -> 2
    [] c = CMD.INVERT_OFF -> 3
    [] c = CMD.SIZE_NORMAL -> 4
    [] c = CMD.ALIGN_LEFT -> 5
    [] OTHER -> 0

\* the ranks are those of known commands and rise from each command to the next
Rising(ranks) ==
  /\ \A k \in 1..Len(ranks) : ranks[k] > 0
  /\ \A k \in 1..(Len(ranks) - 1) : ranks[k] < ranks[k + 1]

\* the alignment command of the item's style, left when it sets none
AlignCommandOf(item) ==
  IF Has(item, "style") /\ Has(item.style, "align") /\ item.style.align = "center"
  THEN CMD.ALIGN_CENTER
  ELSE IF Has(item, "style") /\ Has(item.style, "align") /\ item.style.align = "right"
  THEN CMD.ALIGN_RIGHT
  ELSE CMD.ALIGN_LEFT

\* C13: the commands of a Text item come in this order: one alignment command,
\* always there and first (left when unset); then size, bold-on, underline-on,
\* invert-on, each if emitted; the UTF-8 text and a line feed; then bold-off,
\* underline-off, invert-off, size-normal, each if emitted; and last an
\* alignment-left command, always there.
C13_TextCommandOrder ==
  EncodedAlone("text") =>
    /\ Len(SetCommands) >= 1
    /\ SetCommands[1] = AlignCommandOf(call.contents[1])
    /\ Rising([k \in 1..Len(SetCommands) |-> SetRank(SetCommands[k])])
    /\ TextBytes = BufferFromUtf8(call.contents[1].value)
    /\ (Len(ItemBytes) - FirstLF(ItemBytes)) % 3 = 0
    /\ Len(ResetCommands) >= 1
    /\ ResetCommands[Len(ResetCommands)] = CMD.ALIGN_LEFT
    /\ Rising([k \in 1..Len(ResetCommands) |-> ResetRank(ResetCommands[k])])

\* C13 witness: a Text item with every style field set, whose text is wrapped
\* in five commands before and five after
C13_Witness ==
  /\ EncodedAlone("text")
  /\ Has(call.contents[1], "style")
  /\ call.contents[1].style = [align |-> "center", size |-> "double-width", bold |-> TRUE,
                               underline |-> TRUE, invert |-> TRUE]
  /\ Len(SetCommands) = 5
  /\ Len(ResetCommands) = 5

\* the commands as a set
Among(commands) == {commands[k] : k \in 1..Len(commands)}

\* C14: for every style of a Text item, size 'normal' and no style included, a
\* reset follows the text if and only if its set command came before it:
\* bold-off iff bold-on, underline-off iff underline-on, invert-off iff
\* invert-on, size-normal iff a double-height, double-width or double command.
C14_SetResetPairing ==
  EncodedAlone("text") =>
    /\ CMD.BOLD_OFF \in Among(ResetCommands) <=> CMD.BOLD_ON \in Among(SetCommands)
    /\ CMD.UNDERLINE_OFF \in Among(ResetCommands)
         <=> CMD.UNDERLINE_ON \in Among(SetCommands)
    /\ CMD.INVERT_OFF \in Among(ResetCommands) <=> CMD.INVERT_ON \in Among(SetCommands)
    /\ CMD.SIZE_NORMAL \in Among(ResetCommands)
         <=> Among(SetCommands) \cap SizeCommands # {}

\* C14: a Text item of size 'normal', reset to the normal size it never left
C14_NormalSizeReset ==
  /\ EncodedAlone("text")
  /\ Has(call.contents[1], "style")
  /\ call.contents[1].style = [size |-> "normal"]
  /\ SetCommands = <<CMD.ALIGN_LEFT>>
  /\ ResetCommands = <<CMD.SIZE_NORMAL, CMD.ALIGN_LEFT>>

\* chars-per-line of the paper width of the call
LineWidth == IF call.paperWidth = <<58>> THEN 32 ELSE 48

\* a column's text, empty when it has none, fitted to a width by the column's
\* alignment as the layout engine pads and cuts a string
FittedColumn(col, width) ==
  padString(IF Has(col, "text") THEN col.text ELSE << >>, width, Opt(col, "align"), << >>)

\* the line of a row of columns: its fitted columns one after the other
FittedLine(cols) ==
  Concat([i \in 1..Len(cols) |->
            FittedColumn(cols[i], escpos_calculateColumnWidths(cols, LineWidth)[i])])

AnyBold(cols) == \E i \in 1..Len(cols) : Has(cols[i], "bold") /\ cols[i].bold

\* the bytes of a row of columns: its line and a line feed, in bold-on ...
\* bold-off iff a column is bold
FittedRow(cols) ==
  (IF AnyBold(cols) THEN <<27, 69, 1>> ELSE << >>)
  \o BufferFromUtf8(FittedLine(cols)) \o <<10>>
  \o (IF AnyBold(cols) THEN <<27, 69, 0>> ELSE << >>)

\* C15: every row of a Table item is encoded on its own: its line is each
\* column's text padded or cut to the column's width by its alignment (left
\* when unset), the widths computed from that row against chars-per-line, with
\* no separator, then a line feed; line and line feed are wrapped in bold-on
\* ... bold-off iff a column of that row is bold, so that a bold row never
\* makes the next row bold.
C15_TableRows ==
  EncodedAlone("table") =>
    ItemBytes = Concat([k \in 1..Len(call.contents[1].rows) |->
                          FittedRow(call.contents[1].rows[k])])

\* C15 witness: a table whose first row is bold and whose second is not
C15_Witness ==
  /\ EncodedAlone("table")
  /\ Len(call.contents[1].rows) = 2
  /\ AnyBold(call.contents[1].rows[1])
  /\ ~AnyBold(call.contents[1].rows[2])
  /\ SubSeq(ItemBytes, 1, 3) = <<27, 69, 1>>
  /\ SubSeq(ItemBytes, Len(ItemBytes) - 3, Len(ItemBytes)) # <<10, 27, 69, 0>>

\* C16: a Feed item of line count n is the three bytes ESC 64 N (hexadecimal)
\* with N = min(255, max(0, n)); N = 3 without a line count; a line count of 0
\* gives N = 0.
C16_FeedClamped ==
  EncodedAlone("feed") =>
    ItemBytes = <<27, 100,
                  IF ~Has(call.contents[1], "lines") THEN 3
                  ELSE IF call.contents[1].lines < 0 THEN 0
                  ELSE IF call.contents[1].lines > 255 THEN 255
                  ELSE call.contents[1].lines>>

\* C16 witness: a Feed item of 300 lines, encoded as a feed of 255
C16_Witness ==
  /\ EncodedAlone("feed")
  /\ Has(call.contents[1], "lines")
  /\ call.contents[1].lines = 300
  /\ ItemBytes = <<27, 100, 255>>

CommandAt(bytes, c) ==
  CHOOSE i \in 1..(Len(bytes) - 1) :
    /\ bytes[i] = GS /\ bytes[i + 1] = c
    /\ \A k \in 1..(i - 1) : ~(bytes[k] = GS /\ bytes[k + 1] = c)

\* the parameter bytes of the height command GS 68 and the width command GS 77
HeightByte == ItemBytes[CommandAt(ItemBytes, 104) + 2]

WidthByte == ItemBytes[CommandAt(ItemBytes, 119) + 2]

\* C18: for every integer height and width of a Barcode item, zero and
\* negative ones too, the parameter of the height command is in 1..255 and
\* that of the width command in 2..6; absent values give 100 and 2.
C18_BarcodeClamping ==
  EncodedAlone("barcode") =>
    /\ HeightByte \in 1..255
    /\ WidthByte \in 2..6
    /\ ~Has(call.contents[1].options, "height") => HeightByte = 100
    /\ ~Has(call.contents[1].options, "width") => WidthByte = 2

\* C18: a Barcode item of height 0, whose height command has the parameter 0
C18_ZeroHeight ==
  /\ EncodedAlone("barcode")
  /\ Has(call.contents[1].options, "height")
  /\ call.contents[1].options.height = 0
  /\ HeightByte = 0

\* C19: a Barcode item of a symbology that is none of the nine is encoded as
\* the same item with the symbology CODE128: code 49 (hexadecimal) in the
\* CODE128 frame, with its sub-header and character-set selector.
C19_UnknownIsCode128 ==
  (EncodedAlone("barcode") /\ call.contents[1].options.type \notin DOMAIN barcodeTypes) =>
    result.value =
      buildESCPOSData(<<[call.contents[1] EXCEPT !.options.type = "CODE128"]>>,
                      call.paperWidth)

\* C19: a Barcode item of the symbology 'QR', encoded with the code of CODE128
\* in the frame of the other symbologies
C19_Code128InPlainFrame ==
  /\ EncodedAlone("barcode")
  /\ call.contents[1] = [type |-> "barcode", value |-> <<"1", "2">>,
                         options |-> [type |-> "QR"]]
  /\ ItemBytes = <<29, 104, 100, 29, 119, 2, 29, 72, 2, 29, 107, 73, 2, 49, 50,
                   10, 27, 97, 0>>

\* the length byte of the print command GS 6B, and the number of bytes of the
\* frame after it: all but the line feed and the alignment command at the end
LengthByte == ItemBytes[CommandAt(ItemBytes, 107) + 3]

CarriedBytes == Len(ItemBytes) - (CommandAt(ItemBytes, 107) + 3) - 4

\* C20: the length byte after the symbology code is the number of bytes the
\* frame carries after it: the value bytes, and for CODE128 the 2 selector
\* bytes as well, also where that count is above 255.
C20_LengthPrefix ==
  EncodedAlone("barcode") =>
    /\ LengthByte = CarriedBytes
    /\ CarriedBytes = Len(call.contents[1].value)
                       + (IF call.contents[1].options.type = "CODE128" THEN 2 ELSE 0)

\* C20: a CODE128 barcode of 254 characters, whose length byte is 0
C20_LengthWraps ==
  /\ EncodedAlone("barcode")
  /\ call.contents[1].options.type = "CODE128"
  /\ Len(call.contents[1].value) = 254
  /\ CarriedBytes = 256
  /\ LengthByte = 0

----------------------------------------------------------------------------
(* The layout functions applied to inputs drawn at the start *)

PadTexts == {SubSeq(<<"a", "b", "c", "d">>, 1, n) : n \in 0..4}

PadCalls ==
  {[fn |-> "padString", text |-> t, length |-> n, align |-> a, padChar |-> pc] :
     t \in PadTexts, n \in 0..MaxPadLen,
     a \in {<< >>, <<"left">>, <<"right">>, <<"center">>},
     pc \in {<< >>, <<<<"*">>>>}}

\* a column with no width, a count, a count in a string, percentages
ColumnWidths ==
  {[text |-> <<"x">>]} \cup
  {[text |-> <<"x">>, width |-> w] :
     w \in {[num |-> 10], [num |-> -1], [str |-> <<"2", "0">>],
            [str |-> <<"6", "0", "%">>], [str |-> <<"5", "8", "%">>]}}

ColumnLists == UNION {[1..n -> ColumnWidths] : n \in 0..MaxColumns}

TotalWidths == {32, 48, 50}

WidthCalls ==
  {[fn |-> f, columns |-> cols, totalWidth |-> t] :
     f \in {"calculateColumnWidths", "escpos_calculateColumnWidths"},
     cols \in ColumnLists, t \in TotalWidths}

\* letters, spaces and a line break, in every order
WrapTexts ==
  UNION {[1..n -> {"a", "b", " ", "\n"}] : n \in 0..MaxWrapLen}
  \cup {<<"h", "e", "l", "l", "o">>,
         <<"h", "e", "l", "l", "o", " ", "w", "o", "r", "l", "d", " ",
           "f", "o", "o", " ", "b", "a", "r">>}

WrapCalls ==
  {[fn |-> "wordWrap", text |-> t, maxWidth |-> w] : t \in WrapTexts, w \in {1, 2, 3, 10}}

\* amounts in hundredths: zero, halves of a unit, thousands and millions
CurrencyAmounts ==
  {0, 5, -5, 50, 145, 250, -40, 9999, -9999, 100000, -123456, 123456789, -123456789}

\* every combination of the currency options, each given or not
CurrencyOptionSets ==
  {[k \in ks |-> IF k = "symbol" THEN sy
                 ELSE IF k = "symbolPosition" THEN sp
                 ELSE IF k = "decimals" THEN d
                 ELSE IF k = "thousandSeparator" THEN <<",">> ELSE <<",">>] :
     ks \in SUBSET {"symbol", "symbolPosition", "decimals", "thousandSeparator",
                    "decimalSeparator"},
     sy \in {<< >>, <<"$">>, <<"U", "S", "D">>},
     sp \in {"before", "after"},
     d \in 0..3}

CurrencyCalls ==
  {[fn |-> "formatCurrency", amount |-> a, options |-> o] :
     a \in CurrencyAmounts, o \in CurrencyOptionSets}

InitLayout ==
  /\ IdleBuilder
  /\ call \in PadCalls \cup WidthCalls \cup WrapCalls \cup CurrencyCalls
  /\ result = Pending

CallPadString ==
  /\ call.fn = "padString"
  /\ ~result.done
  /\ result' = Done(padString(call.text, call.length, call.align, call.padChar))
  /\ UNCHANGED <<builderVars, call>>

CallCalculateColumnWidths ==
  /\ call.fn = "calculateColumnWidths"
  /\ ~result.done
  /\ result' = Done(calculateColumnWidths(call.columns, call.totalWidth))
  /\ UNCHANGED <<builderVars, call>>

CallEscposCalculateColumnWidths ==
  /\ call.fn = "escpos_calculateColumnWidths"
  /\ ~result.done
  /\ result' = Done(escpos_calculateColumnWidths(call.columns, call.totalWidth))
  /\ UNCHANGED <<builderVars, call>>

CallWordWrap ==
  /\ call.fn = "wordWrap"
  /\ ~result.done
  /\ result' = Done(wordWrap(call.text, call.maxWidth))
  /\ UNCHANGED <<builderVars, call>>

CallFormatCurrency ==
  /\ call.fn = "formatCurrency"
  /\ ~result.done
  /\ result' = Done(formatCurrency(call.amount, call.options))
  /\ UNCHANGED <<builderVars, call>>

NextLayout ==
  \/ CallFormatCurrency
  \/ CallWordWrap
  \/ CallPadString
  \/ CallCalculateColumnWidths
  \/ CallEscposCalculateColumnWidths

SpecLayout == InitLayout /\ [][NextLayout]_vars

----------------------------------------------------------------------------
(* Properties of the layout functions, under SpecLayout *)

\* the width a column asks for as the distribution rule reads it: a count, or
\* p% of the total width rounded down
AskedWidth(col, totalWidth) ==
  IF Has(col.width, "num") THEN col.width.num
  ELSE IF EndsWithPercent(col.width.str)
  THEN (totalWidth * ParseInt(col.width.str)) \div 100
  ELSE ParseInt(col.width.str)

\* the widths the distribution rule gives
Distributed(columns, totalWidth) ==
  LET flex == {i \in 1..Len(columns) : ~Has(columns[i], "width")}
      others == SumSeq([i \in 1..Len(columns) |->
                          IF i \in flex THEN 0 ELSE AskedWidth(columns[i], totalWidth)])
  IN [i \in 1..Len(columns) |->
        IF i \in flex THEN (totalWidth - others) \div Cardinality(flex)
        ELSE AskedWidth(columns[i], totalWidth)]

\* C9: a column with a numeric width gets that width, one with p% gets
\* floor(totalWidth * p / 100), and each column without a width gets
\* floor((totalWidth - sum of the other widths) / flexCount), in the encoder's
\* and in the layout engine's calculateColumnWidths alike; [60%, none] over 48
\* gives [28, 20].
C9_WidthDistribution ==
  (call.fn \in {"calculateColumnWidths", "escpos_calculateColumnWidths"} /\ result.done)
    => result.value = Distributed(call.columns, call.totalWidth)

\* C9: the layout engine's calculateColumnWidths given a width of -1 and a
\* column without a width over 48, answering [49, 49]
C9_MinusOneTakenForFlex ==
  /\ call.fn = "calculateColumnWidths"
  /\ result.done
  /\ call.totalWidth = 48
  /\ Len(call.columns) = 2
  /\ Opt(call.columns[1], "width") = <<[num |-> -1]>>
  /\ ~Has(call.columns[2], "width")
  /\ result.value = <<49, 49>>

\* n times the character c
Fill(c, n) == [i \in 1..n |-> c]

\* C10: for a target length >= 0, padString returns exactly that many
\* characters: the first targetLength characters of a text at least that long;
\* otherwise the text with targetLength - length pad characters (spaces unless
\* given) all after it (left), all before it (right), or floor(padding / 2)
\* before it and the rest after it (center).
C10_PadStringExactLength ==
  (call.fn = "padString" /\ result.done) =>
    LET t == call.text
        n == call.length
        a == IF call.align = << >> THEN "left" ELSE call.align[1]
        c == IF call.padChar = << >> THEN " " ELSE call.padChar[1][1]
        padding == n - Len(t)
        out == result.value
    IN /\ Len(out) = n
       /\ Len(t) >= n => out = SubSeq(t, 1, n)
       /\ (Len(t) < n /\ a = "left") => out = t \o Fill(c, padding)
       /\ (Len(t) < n /\ a = "right") => out = Fill(c, padding) \o t
       /\ (Len(t) < n /\ a = "center") =>
            out = Fill(c, padding \div 2) \o t \o Fill(c, padding - (padding \div 2))

\* C10 witness: a text centred with an odd padding, the smaller half leading
C10_Witness ==
  /\ call.fn = "padString"
  /\ result.done
  /\ call.text = <<"a", "b">>
  /\ call.length = 5
  /\ call.align = <<"center">>
  /\ call.padChar = << >>
  /\ result.value = <<" ", "a", "b", " ", " ">>

\* the characters of s that are not spaces, in order
NonSpace(s) == SelectSeq(s, LAMBDA c : c # " ")

\* the first word of a line: its characters before its first space
FirstWord(l) == Split(l)[1]

WordWrapped == call.fn = "wordWrap" /\ result.done

\* every line has at most maxWidth characters
LinesFit == \A i \in 1..Len(result.value) : Len(result.value[i]) <= call.maxWidth

\* the non-space characters of the lines are those of the text, in order
NothingDropped == NonSpace(Concat(result.value)) = NonSpace(call.text)

\* no line could have taken the first word of the next line as well
Greedy ==
  \A i \in 1..(Len(result.value) - 1) :
    Len(result.value[i]) + 1 + Len(FirstWord(result.value[i + 1])) > call.maxWidth

\* C11: for every text and maxWidth >= 1, every line of wordWrap has at most
\* maxWidth characters; the non-space characters of the lines, in order, are
\* exactly those of the text; packing is greedy, and
\* wordWrap('hello world foo bar', 10) is ['hello', 'world foo', 'bar'].
C11_WordWrap ==
  WordWrapped =>
    /\ LinesFit
    /\ NothingDropped
    /\ Greedy
    /\ (Len(call.text) = 19 /\ call.maxWidth = 10) =>
         result.value = <<<<"h", "e", "l", "l", "o">>,
                          <<"w", "o", "r", "l", "d", " ", "f", "o", "o">>,
                          <<"b", "a", "r">>>>

\* C11: wordWrap given a text with a line break after a space, which it drops
C11_LineBreakDropped ==
  /\ WordWrapped
  /\ call.text = <<"a", " ", "\n", "a">>
  /\ call.maxWidth = 3
  /\ result.value = <<<<"a">>, <<"a">>>>

\* an option of the call, or the default of the format
Configured(k) ==
  IF Has(call.options, k) THEN call.options[k]
  ELSE CASE k = "symbol" -> << >>
         [] k = "decimals" -> 2
         [] k = "thousandSeparator" -> <<" ">>
         [] k = "decimalSeparator" -> <<".">>
         [] k = "symbolPosition" -> "after"

\* the digits ds with sep between the groups of three counted from the right
RECURSIVE Grouped(_, _)
Grouped(ds, sep) ==
  IF Len(ds) <= 3 THEN ds
  ELSE Grouped(SubSeq(ds, 1, Len(ds) - 3), sep) \o sep \o SubSeq(ds, Len(ds) - 2, Len(ds))

\* the d last digits of n, zeros leading
RECURSIVE LastDigits(_, _)
LastDigits(n, d) ==
  IF d = 0 THEN << >> ELSE LastDigits(n \div 10, d - 1) \o NatToString(n % 10)

\* the amount h of hundredths as a count of units of 10^-d: exactly, or one of
\* the nearest counts where a hundredth is finer than the unit
NearestCounts(h, d) ==
  IF d >= 2 THEN {h * Pow10(d - 2)}
  ELSE {n \in {h \div Pow10(2 - d), (h \div Pow10(2 - d)) + 1} :
          2 * Abs(n * Pow10(2 - d) - h) <= Pow10(2 - d)}

\* the digits of the count n of units of 10^-d, grouped, with d decimals
WrittenDigits(n, d) ==
  Grouped(NatToString(n \div Pow10(d)), Configured("thousandSeparator"))
  \o (IF d > 0 THEN Configured("decimalSeparator") \o LastDigits(n, d) ELSE << >>)

\* the sign before the digits, and the symbol before or after the two
WithSignAndSymbol(digits) ==
  IF Configured("symbol") = << >>
  THEN (IF call.amount < 0 THEN <<"-">> ELSE << >>) \o digits
  ELSE IF Configured("symbolPosition") = "before"
  THEN Configured("symbol") \o (IF call.amount < 0 THEN <<"-">> ELSE << >>) \o digits
  ELSE (IF call.amount < 0 THEN <<"-">> ELSE << >>) \o digits \o <<" ">>
       \o Configured("symbol")

\* C12: the digits are those of abs(amount) at the configured decimal count,
\* with the thousands separator every 3 digits leftward from the decimal
\* point; '-' comes before the digits exactly when the amount is negative,
\* inside a symbol configured 'before' ('$-99.99'); a symbol configured
\* 'after' follows sign and digits after one space; no symbol adds nothing.
C12_CurrencyFormat ==
  (call.fn = "formatCurrency" /\ result.done) =>
    \E n \in NearestCounts(Abs(call.amount), Configured("decimals")) :
      result.value = WithSignAndSymbol(WrittenDigits(n, Configured("decimals")))

\* C12 witness: -99.99 with the symbol '$' before, giving '$-99.99'
C12_Witness ==
  /\ call.fn = "formatCurrency"
  /\ result.done
  /\ call.amount = -9999
  /\ call.options = [symbol |-> <<"$">>, symbolPosition |-> "before"]
  /\ result.value = <<"$", "-", "9", "9", ".", "9", "9">>

----------------------------------------------------------------------------
(* The template lowering applied to receipt data drawn at the start, on a new *)
(* builder whose currency options may have been set.                          *)

SampleDate ==
  [year |-> 2024, month |-> 0, date |-> 5, hours |-> 9, minutes |-> 7, seconds |-> 3]

\* a value for each field of a header; the title may be the empty string and
\* the address the empty list
HeaderValue(k, plain) ==
  CASE k = "logo" -> <<"l", ".", "p", "n", "g">>
    [] k = "title" -> IF plain THEN <<"S", "h", "o", "p">> ELSE << >>
    [] k = "subtitle" -> <<"C", "a", "f", "e">>
    [] k = "address" -> IF plain THEN <<<<"M", "a", "i", "n">>, <<"S", "t">>>> ELSE << >>
    [] OTHER -> <<"5", "5", "5">>

Headers ==
  {<< >>} \cup
  {<<[k \in ks |-> HeaderValue(k, plain)]>> :
     ks \in SUBSET {"logo", "title", "subtitle", "address", "phone"}, plain \in Bools}

MetaValue(k) ==
  CASE k = "orderNumber" -> <<"4", "2">>
    [] k = "date" -> SampleDate
    [] k = "cashier" -> <<"A", "n", "n">>
    [] OTHER -> <<"B", "o", "b">>

Metas ==
  {<< >>} \cup
  {<<[k \in ks |-> MetaValue(k)]>> :
     ks \in SUBSET {"orderNumber", "date", "cashier", "customer"}}

ReceiptItems ==
  {[name |-> <<"T", "e", "a">>, quantity |-> 2, price |-> 150],
   [name |-> <<"B", "u", "n">>, quantity |-> 10, price |-> 1234567]}

ItemLists == UNION {[1..n -> ReceiptItems] : n \in 0..MaxItems}

Totals ==
  {<< >>} \cup
  {<<[k \in ks \cup {"total"} |->
        CASE k = "subtotal" -> 1000 [] k = "tax" -> 0 [] k = "discount" -> d
          [] OTHER -> 1070]>> :
     ks \in SUBSET {"subtotal", "tax", "discount"}, d \in {-50, 0, 50}}

Payments ==
  {<< >>, <<[method |-> <<"C", "a", "s", "h">>, amount |-> 2000]>>} \cup
  {<<[method |-> <<"C", "a", "s", "h">>, amount |-> 2000, change |-> c]>> :
     c \in {0, 930}}

Footers == {<< >>, <<<< >>>>, <<<<<<"B", "y", "e">>>>>>, <<<<<<"T", "h", "x">>, <<"B", "y", "e">>>>>>}

ReceiptData(h, m, its, t, p, f) ==
  WithOpt(WithOpt(WithOpt(WithOpt(WithOpt([items |-> its], "header", h), "meta", m),
                          "totals", t), "payment", p), "footer", f)

FullHeader == <<[k \in {"logo", "title", "subtitle", "address", "phone"} |->
                   HeaderValue(k, TRUE)]>>

FullMeta == <<[k \in {"orderNumber", "date", "cashier", "customer"} |-> MetaValue(k)]>>

\* every header with every meta block, and every list of items with every
\* totals, payment and footer block
DataSets ==
  {ReceiptData(h, m, <<CHOOSE it \in ReceiptItems : it.quantity = 2>>,
               <<[total |-> 300]>>, << >>, << >>) : h \in Headers, m \in Metas}
  \cup
  {ReceiptData(hm[1], hm[2], its, t, p, f) :
     hm \in {<<<< >>, << >>>>, <<FullHeader, FullMeta>>},
     its \in ItemLists, t \in Totals, p \in Payments, f \in Footers}

InitFromData ==
  /\ IdleBuilder
  /\ call \in {[fn |-> "fromData", data |-> d] : d \in DataSets}
  /\ result = Pending

\* currency options with the symbol after, before and absent
DataCurrencies ==
  {SampleCurrency,
   [symbol |-> <<"$">>, symbolPosition |-> "before"],
   [symbol |-> <<"U", "S", "D">>, symbolPosition |-> "after", decimals |-> 2],
   [decimalSeparator |-> <<",">>]}

SetCurrencyFirst ==
  /\ ops = 0
  /\ \E options \in DataCurrencies :
       Becomes(setCurrency(This, options), Op("setCurrency"))

LowerTemplate ==
  /\ call.fn = "fromData"
  /\ contents = << >>
  /\ lastOp.name # "fromData"
  /\ Becomes(fromData(This, call.data), Op("fromData"))

NextFromData ==
  \/ SetCurrencyFirst
  \/ LowerTemplate

SpecFromData == InitFromData /\ [][NextFromData]_vars

----------------------------------------------------------------------------
(* Properties of the template lowering, under SpecFromData *)

\* the sequence with every Table replaced by its rows, one unit per row
Flatten(items) ==
  Concat([i \in 1..Len(items) |->
            IF items[i].type = "table"
            THEN [j \in 1..Len(items[i].rows) |->
                    [type |-> "row", columns |-> items[i].rows[j]]]
            ELSE <<items[i]>>])

\* the part when its input is present
Part(present, units) == IF present THEN units ELSE << >>

CenteredText(value) == [type |-> "text", value |-> value, style |-> [align |-> "center"]]

LabelValueRow(label, value) ==
  [type |-> "row",
   columns |-> <<[text |-> label, align |-> "left", bold |-> FALSE],
                 [text |-> value, align |-> "right"]>>]

SeparatorLine == [type |-> "line"]

ExpectedHeader(h) ==
  Part(Truthy(h, "logo"),
       <<[type |-> "image", source |-> h.logo, options |-> [align |-> "center"]]>>)
  \o Part(Truthy(h, "title"),
          <<[type |-> "text", value |-> h.title,
             style |-> [align |-> "center", bold |-> TRUE, size |-> "double"]]>>)
  \o Part(Truthy(h, "subtitle"),
          <<[type |-> "text", value |-> h.subtitle,
             style |-> [align |-> "center", bold |-> TRUE]]>>)
  \o Part(Has(h, "address"), [i \in 1..Len(h.address) |-> CenteredText(h.address[i])])
  \o Part(Truthy(h, "phone"), <<CenteredText(h.phone)>>)
  \o <<SeparatorLine>>

ExpectedMeta(m) ==
  Part(Truthy(m, "orderNumber"), <<LabelValueRow(<<"O", "r", "d", "e", "r", " ", "#", ":">>, m.orderNumber)>>)
  \o Part(Has(m, "date"), <<LabelValueRow(<<"D", "a", "t", "e", ":">>, formatDate(m.date))>>)
  \o Part(Truthy(m, "cashier"), <<LabelValueRow(<<"C", "a", "s", "h", "i", "e", "r", ":">>, m.cashier)>>)
  \o Part(Truthy(m, "customer"), <<LabelValueRow(<<"C", "u", "s", "t", "o", "m", "e", "r", ":">>, m.customer)>>)
  \o <<SeparatorLine>>

ExpectedItemRow(item, cur) ==
  [type |-> "row",
   columns |-> <<[text |-> item.name, width |-> [str |-> <<"5", "0", "%">>],
                  align |-> "left"],
                 [text |-> IntToString(item.quantity),
                  width |-> [str |-> <<"1", "5", "%">>], align |-> "center"],
                 [text |-> formatCurrency(item.price, cur),
                  width |-> [str |-> <<"3", "5", "%">>], align |-> "right"]>>]

ExpectedTotals(t, cur) ==
  Part(Has(t, "subtotal"), <<LabelValueRow(<<"S", "u", "b", "t", "o", "t", "a", "l", ":">>, formatCurrency(t.subtotal, cur))>>)
  \o Part(Has(t, "tax"), <<LabelValueRow(<<"T", "a", "x", ":">>, formatCurrency(t.tax, cur))>>)
  \o Part(Has(t, "discount") /\ t.discount > 0,
          <<LabelValueRow(<<"D", "i", "s", "c", "o", "u", "n", "t", ":">>, <<"-">> \o formatCurrency(t.discount, cur))>>)
  \o <<[type |-> "line", character |-> <<"=">>],
       [type |-> "row",
        columns |-> <<[text |-> <<"T", "O", "T", "A", "L", ":">>, align |-> "left", bold |-> TRUE],
                      [text |-> formatCurrency(t.total, cur), align |-> "right",
                       bold |-> TRUE]>>]>>

ExpectedPayment(p, cur) ==
  <<[type |-> "feed", lines |-> 1],
    LabelValueRow(<<"P", "a", "y", "m", "e", "n", "t", ":">>, p.method),
    LabelValueRow(<<"A", "m", "o", "u", "n", "t", ":">>, formatCurrency(p.amount, cur))>>
  \o Part(Has(p, "change") /\ p.change > 0,
          <<LabelValueRow(<<"C", "h", "a", "n", "g", "e", ":">>, formatCurrency(p.change, cur))>>)

ExpectedFooter(f) ==
  <<[type |-> "feed", lines |-> 1], SeparatorLine>>
  \o [i \in 1..Len(f) |-> CenteredText(f[i])]

\* the units the lowering of data is to give, in order
Expected(data, cur) ==
  Part(Has(data, "header"), ExpectedHeader(data.header))
  \o Part(Has(data, "meta"), ExpectedMeta(data.meta))
  \o <<[type |-> "row", columns |-> ItemsHeader],
       [type |-> "line", character |-> <<"-">>]>>
  \o [i \in 1..Len(data.items) |-> ExpectedItemRow(data.items[i], cur)]
  \o <<SeparatorLine>>
  \o Part(Has(data, "totals"), ExpectedTotals(data.totals, cur))
  \o Part(Has(data, "payment"), ExpectedPayment(data.payment, cur))
  \o Part(Has(data, "footer") /\ Len(data.footer) > 0, ExpectedFooter(data.footer))
  \o <<[type |-> "feed", lines |-> 3], [type |-> "cut", partial |-> FALSE]>>

\* rows that follow one another share one Table, and no Table is empty
RowsCoalesced(items) ==
  /\ \A i \in 1..Len(items) : items[i].type = "table" => Len(items[i].rows) >= 1
  /\ \A i \in 1..(Len(items) - 1) :
       ~(items[i].type = "table" /\ items[i + 1].type = "table")

Kinds(items) == [i \in 1..Len(items) |-> items[i].type]

Lowered == call.fn = "fromData" /\ lastOp.name = "fromData"

\* C2: fromData(data) on an empty builder gives exactly: the header block
\* (image, title, subtitle, address lines, phone, separator line) if a header
\* is given; the meta block (order number, date, cashier, customer rows,
\* separator line) if meta is given; the bold items-header row; a dashed
\* line; one item row per item in input order; a separator line; the totals
\* block (subtotal and tax rows if defined, discount row if discount > 0,
\* double line, bold total row) if totals are given; the payment block (feed
\* of 1, method row, amount row, change row if change > 0) if payment is
\* given; the footer block (feed of 1, separator line, one centered text per
\* line) if the footer is not empty; feed; cut.  Each part is there exactly
\* when its input is.  One item with totals of total only and nothing else
\* gives items-header table, dashed line, item table, separator line, double
\* line, total table, feed, cut.
C2_TemplateLowering ==
  Lowered =>
    /\ Flatten(Items) = Expected(call.data, currencyOptions)
    /\ RowsCoalesced(Items)
    /\ (/\ DOMAIN call.data = {"items", "totals"}
        /\ Len(call.data.items) = 1
        /\ DOMAIN call.data.totals = {"total"})
       => Kinds(Items) = <<"table", "line", "table", "line", "line", "table", "feed", "cut">>

\* C2 witness: a receipt with every block given, two items, a discount and
\* change, lowered with the currency options set
C2_Witness ==
  /\ Lowered
  /\ currencyOptions = SampleCurrency
  /\ DOMAIN call.data = {"items", "header", "meta", "totals", "payment", "footer"}
  /\ Len(call.data.items) = 2
  /\ Truthy(call.data.header, "title")
  /\ Has(call.data.totals, "subtotal")
  /\ Has(call.data.totals, "discount")
  /\ call.data.totals.discount > 0
  /\ Has(call.data.payment, "change")
  /\ call.data.payment.change > 0
  /\ Len(call.data.footer) = 2
  /\ Kinds(Items) =
       <<"image", "text", "text", "text", "text", "text", "line",
         "table", "line", "table", "line", "table", "line", "table", "line", "table",
         "feed", "table", "feed", "line", "text", "text", "feed", "cut">>

----------------------------------------------------------------------------
(* The QR item, under SpecEncode *)

\* the place in the item's bytes of the first command GS ( k
QRStart == CommandAt(ItemBytes, 40)

\* the commands of a QR item from there on: select model (9 bytes), then size,
\* error correction and the header of store data (8 bytes each), the stored
\* bytes, and the last 12 bytes
QRSelectModel == SubSeq(ItemBytes, QRStart, QRStart + 8)

QRSize == SubSeq(ItemBytes, QRStart + 9, QRStart + 16)

QRErrorCorrection == SubSeq(ItemBytes, QRStart + 17, QRStart + 24)

QRStoreHeader == SubSeq(ItemBytes, QRStart + 25, QRStart + 32)

QRStored == SubSeq(ItemBytes, QRStart + 33, Len(ItemBytes) - 12)

QRTail == SubSeq(ItemBytes, Len(ItemBytes) - 11, Len(ItemBytes))

\* C21: for every QR item the select-model command is the bytes
\* GS 28 6B 04 00 31 41 02 00 of the command table, which are also the bytes of
\* the exported QR model command for model 2.
C21_SelectModel ==
  EncodedAlone("qrcode") =>
    /\ QRSelectModel = <<29, 40, 107, 4, 0, 49, 65, 2, 0>>
    /\ QRSelectModel = Commands_QRCODE_MODEL(<<2>>)
    /\ QRSelectModel = Commands_QRCODE_MODEL(<< >>)

\* C21: a QR item with no options, whose select-model command has 32 where the
\* table has 02
C21_ModelByte32 ==
  /\ EncodedAlone("qrcode")
  /\ call.contents[1] = [type |-> "qrcode", value |-> SampleText]
  /\ QRSelectModel = <<29, 40, 107, 4, 0, 49, 65, 50, 0>>

\* the number of UTF-8 bytes of a string of the basic plane
Utf8Length(s) ==
  Len(s) + Len(SelectSeq(s, LAMBDA c : CodeUnit(c) >= 128))
         + Len(SelectSeq(s, LAMBDA c : CodeUnit(c) >= 2048))

\* C22: for every QR value the length bytes pL, pH of the store-data command
\* satisfy pL + 256 * pH = dataByteLength + 3, dataByteLength being the number
\* of UTF-8 bytes of the value, and that many data bytes follow the header
\* 31 50 30; also where dataByteLength + 3 is above 65535.
C22_StoreLength ==
  EncodedAlone("qrcode") =>
    /\ SubSeq(QRStoreHeader, 1, 3) = <<GS, 40, 107>>
    /\ SubSeq(QRStoreHeader, 6, 8) = <<49, 80, 48>>
    /\ QRStoreHeader[4] + (256 * QRStoreHeader[5])
         = Utf8Length(call.contents[1].value) + 3
    /\ Len(QRStored) = Utf8Length(call.contents[1].value)

\* C22: a QR value of 65535 bytes, whose length bytes are 02 00
C22_LengthWraps ==
  /\ EncodedAlone("qrcode")
  /\ Utf8Length(call.contents[1].value) = 65535
  /\ Len(QRStored) = 65535
  /\ QRStoreHeader[4] = 2
  /\ QRStoreHeader[5] = 0

\* the options of the encoded QR item, or none
QROptions == Opt(call.contents[1], "options")

\* the alignment command a QR item starts with
QRAlignment ==
  IF OptField(QROptions, "align") = <<"center">> THEN <<ESC, 97, 1>>
  ELSE IF OptField(QROptions, "align") = <<"right">> THEN <<ESC, 97, 2>>
  ELSE << >>

\* the size parameter: 6 when the size is absent, else the size brought into
\* 1..16
QRSizeParameter ==
  IF OptField(QROptions, "size") = << >> THEN 6
  ELSE IF OptField(QROptions, "size")[1] < 1 THEN 1
  ELSE IF OptField(QROptions, "size")[1] > 16 THEN 16
  ELSE OptField(QROptions, "size")[1]

\* the error-correction parameter: 30, 31, 32, 33 for L, M, Q, H and 31 for
\* anything else
QRLevelParameter ==
  IF OptField(QROptions, "errorCorrection") = <<"L">> THEN 48
  ELSE IF OptField(QROptions, "errorCorrection") = <<"Q">> THEN 50
  ELSE IF OptField(QROptions, "errorCorrection") = <<"H">> THEN 51
  ELSE 49

\* C23: the encoding of a QR item is, in this order: an alignment command only
\* when the alignment is center or right; select model; the size command with
\* min(16, max(1, size)), 6 when the size is absent and 1 for a size of 0 or
\* below; the error-correction command with 30/31/32/33 for L/M/Q/H and 31
\* when the level is absent or unrecognized; store data with the UTF-8 bytes of
\* the value; print stored symbol; line feed; align left.  (The model byte of
\* select model is C21's, the two length bytes of store data are C22's.)
C23_QRCodeOrder ==
  EncodedAlone("qrcode") =>
    ItemBytes =
      QRAlignment
      \o <<GS, 40, 107, 4, 0, 49, 65, ItemBytes[Len(QRAlignment) + 8], 0>>
      \o <<GS, 40, 107, 3, 0, 49, 67, QRSizeParameter>>
      \o <<GS, 40, 107, 3, 0, 49, 69, QRLevelParameter>>
      \o <<GS, 40, 107, ItemBytes[Len(QRAlignment) + 29],
           ItemBytes[Len(QRAlignment) + 30], 49, 80, 48>>
      \o BufferFromUtf8(call.contents[1].value)
      \o <<GS, 40, 107, 3, 0, 49, 81, 48>>
      \o <<LF>>
      \o <<ESC, 97, 0>>

\* C23 witness: a QR item of size 0 and an unrecognized level, whose size
\* parameter is 1 and whose level parameter is 31
C23_Witness ==
  /\ EncodedAlone("qrcode")
  /\ QROptions = <<[size |-> 0, errorCorrection |-> "X"]>>
  /\ QRSize = <<GS, 40, 107, 3, 0, 49, 67, 1>>
  /\ QRErrorCorrection = <<GS, 40, 107, 3, 0, 49, 69, 49>>
  /\ QRTail = <<GS, 40, 107, 3, 0, 49, 81, 48, LF, ESC, 97, 0>>

----------------------------------------------------------------------------
(* wordWrap run statement by statement: WordWrapEnter is the test before the  *)
(* loops, WordWrapNextWord one pass of the loop over the words or the return  *)
(* after it, WordWrapSplitStep one pass of the loop that splits a long word.  *)

MaxLines == 20      \* the elements an array holds before push fails

WrapLoopTexts ==
  UNION {[1..n -> {"a", "b", " "}] : n \in 0..MaxWrapLen}
  \cup {<<"h", "e", "l", "l", "o", " ", "w", "o", "r", "l", "d", " ",
          "f", "o", "o", " ", "b", "a", "r">>}

WrapLoopCalls ==
  {[fn |-> "wordWrap", text |-> t, maxWidth |-> w] :
     t \in WrapLoopTexts, w \in {0, 1, 2, 3, 10}}

InitWrap ==
  /\ IdleBuilder
  /\ call \in WrapLoopCalls
  /\ result = Pending

\* the locals of a running wordWrap
WrapLocals(pc, words, lines, currentLine, word, i) ==
  [done |-> FALSE, previous |-> << >>, pc |-> pc, words |-> words, lines |-> lines,
   currentLine |-> currentLine, word |-> word, i |-> i]

\* push has failed: the call ends without a list
WrapFailed == [done |-> FALSE, previous |-> << >>, pc |-> "failed"]

Running(pc) == ~result.done /\ Has(result, "pc") /\ result.pc = pc

WordWrapEnter ==
  /\ call.fn = "wordWrap"
  /\ result = Pending
  /\ result' = IF Len(call.text) <= call.maxWidth THEN Done(<<call.text>>)
               ELSE WrapLocals("words", Split(call.text), << >>, << >>, << >>, 0)
  /\ UNCHANGED <<builderVars, call>>

WordWrapNextWord ==
  /\ Running("words")
  /\ result' =
       IF result.words = << >> THEN Done(PushCurrent(result))
       ELSE IF Len(Head(result.words)) > call.maxWidth
       THEN WrapLocals("split", Tail(result.words), PushCurrent(result), << >>,
                       Head(result.words), 0)
       ELSE IF Len(Trim(result.currentLine \o <<" ">> \o Head(result.words)))
                 <= call.maxWidth
       THEN WrapLocals("words", Tail(result.words), result.lines,
                       Trim(result.currentLine \o <<" ">> \o Head(result.words)),
                       result.word, result.i)
       ELSE WrapLocals("words", Tail(result.words), PushCurrent(result),
                       Head(result.words), result.word, result.i)
  /\ UNCHANGED <<builderVars, call>>

\* the body of the splitting loop at i, then i += maxWidth and the test of i
WordWrapSplitStep ==
  /\ Running("split")
  /\ result' =
       IF result.i + call.maxWidth < Len(result.word)
       THEN IF Len(result.lines) >= MaxLines THEN WrapFailed
            ELSE WrapLocals("split", result.words,
                            Append(result.lines,
                                   Substring(result.word, result.i,
                                             result.i + call.maxWidth)),
                            result.currentLine, result.word,
                            result.i + call.maxWidth)
       ELSE WrapLocals("words", result.words, result.lines,
                       Substring(result.word, result.i, Len(result.word)),
                       result.word, result.i + call.maxWidth)
  /\ UNCHANGED <<builderVars, call>>

NextWrap ==
  \/ WordWrapEnter
  \/ WordWrapNextWord
  \/ WordWrapSplitStep

SpecWrap == InitWrap /\ [][NextWrap]_vars

\* a call runs until it returns or fails: nothing else is scheduled
FairSpecWrap == SpecWrap /\ WF_vars(NextWrap)

\* C24: word wrap terminates for every text and every maxWidth >= 0, maxWidth
\* 0 and words longer than maxWidth included: every call returns its lines.
C24_WordWrapTerminates == <>(call.fn = "wordWrap" /\ result.done)

\* C24: a call with maxWidth 0 whose array of lines has grown until push fails
C24_NeverReturns ==
  /\ call.fn = "wordWrap"
  /\ call.maxWidth = 0
  /\ call.text = <<"a">>
  /\ result = WrapFailed

\* every pass of the splitting loop moves i forward when maxWidth is 1 or
\* more; with maxWidth 0 a pass leaves i where it was
SplitLoopAdvances ==
  [][(Running("split") /\ call.maxWidth >= 1) => result'.i > result.i]_vars

SplitLoopStandsStill ==
  [][(Running("split") /\ call.maxWidth = 0 /\ result' # WrapFailed)
       => (result'.i = result.i /\ result'.pc = "split")]_vars

\* with a maxWidth of 1 or more every call returns, and returns what wordWrap
\* computes
WrapReturnsWhenPositive ==
  call.maxWidth >= 1 ~> result.done

WrapStepsAgree ==
  (result.done /\ call.maxWidth >= 1) =>
    result.value = wordWrap(call.text, call.maxWidth)

----------------------------------------------------------------------------
(* The Discount row of fromData, under SpecFromData *)

\* the rows of the lowered receipt whose first column is the label Discount:
DiscountRows ==
  SelectSeq(Flatten(Items),
            LAMBDA u : /\ u.type = "row"
                       /\ Has(u.columns[1], "text")
                       /\ u.columns[1].text = <<"D", "i", "s", "c", "o", "u", "n", "t", ":">>)

DiscountGiven ==
  /\ Has(call.data, "totals")
  /\ Has(call.data.totals, "discount")
  /\ call.data.totals.discount > 0

\* C25: for every discount > 0 and every currency format, symbol before, after
\* or none, the value of the Discount row is the string Currency format gives
\* for the amount -discount under the builder's options; there is no Discount
\* row when the discount is absent or <= 0.
C25_DiscountRow ==
  Lowered =>
    IF DiscountGiven
    THEN /\ Len(DiscountRows) = 1
         /\ DiscountRows[1].columns[2].text
              = formatCurrency(-call.data.totals.discount, currencyOptions)
    ELSE DiscountRows = << >>

\* C25: a discount of 0.50 under a symbol placed before, printed as -$0.50
\* where Currency format gives $-0.50
C25_SignBeforeSymbol ==
  /\ Lowered
  /\ DiscountGiven
  /\ currencyOptions = [symbol |-> <<"$">>, symbolPosition |-> "before"]
  /\ DiscountRows[1].columns[2].text = <<"-", "$", "0", ".", "5", "0">>
  /\ formatCurrency(-50, currencyOptions) = <<"$", "-", "0", ".", "5", "0">>

\* the Discount row under a symbol placed after, or under no symbol
DiscountRowUnlessBefore ==
  (Lowered /\ ~(Has(currencyOptions, "symbolPosition")
                /\ currencyOptions.symbolPosition = "before"))
    => C25_DiscountRow

----------------------------------------------------------------------------
(* The human-readable text of a Barcode item, under SpecEncode *)

\* the HRI command of the encoded Barcode item: GS 48 and its parameter
HRICommand ==
  SubSeq(ItemBytes, CommandAt(ItemBytes, 72), CommandAt(ItemBytes, 72) + 2)

ShowTextOff == Opt(call.contents[1].options, "showText") = <<FALSE>>

\* 00/01/02/03 for none/above/below/both, below when the position is absent
PositionParameter ==
  IF Opt(call.contents[1].options, "textPosition") = <<"none">> THEN 0
  ELSE IF Opt(call.contents[1].options, "textPosition") = <<"above">> THEN 1
  ELSE IF Opt(call.contents[1].options, "textPosition") = <<"both">> THEN 3
  ELSE 2

\* C26: the HRI command of a Barcode item is GS 48 with 00/01/02/03 for the
\* text position none/above/below/both, below when the position is absent;
\* and an item whose options carry showText = false is encoded with the
\* position none, so that no human-readable text is printed.
C26_HumanReadableText ==
  EncodedAlone("barcode") =>
    HRICommand = <<GS, 72, IF ShowTextOff THEN 0 ELSE PositionParameter>>

\* C26: a Barcode item with showText = false and no text position, encoded
\* with the position below
C26_ShowTextIgnored ==
  /\ EncodedAlone("barcode")
  /\ call.contents[1].options = [type |-> "CODE128", showText |-> FALSE]
  /\ HRICommand = <<GS, 72, 2>>

\* the HRI command of the items whose showText is absent or true
HRIFollowsPosition ==
  (EncodedAlone("barcode") /\ ~ShowTextOff) => C26_HumanReadableText

----------------------------------------------------------------------------
(* The two calculateColumnWidths side by side, under SpecLayout *)

WidthsComputed ==
  call.fn \in {"calculateColumnWidths", "escpos_calculateColumnWidths"} /\ result.done

\* what the implementation that was not called returns for the same arguments
OtherWidths ==
  IF call.fn = "calculateColumnWidths"
  THEN escpos_calculateColumnWidths(call.columns, call.totalWidth)
  ELSE calculateColumnWidths(call.columns, call.totalWidth)

\* C27: for every column list (numeric widths of any sign, percentages, no
\* width) and every totalWidth, the layout engine's calculateColumnWidths and
\* the encoder's calculateColumnWidths return the same list of widths.
C27_WidthsAgree == WidthsComputed => result.value = OtherWidths

\* C27: the encoder's widths for a width of -1 beside a column without a
\* width over 48, where the layout engine answers [49, 49]
C27_MinusOneDisagrees ==
  /\ call.fn = "escpos_calculateColumnWidths"
  /\ result.done
  /\ call.totalWidth = 48
  /\ Len(call.columns) = 2
  /\ Opt(call.columns[1], "width") = <<[num |-> -1]>>
  /\ ~Has(call.columns[2], "width")
  /\ result.value = <<-1, 49>>
  /\ OtherWidths = <<49, 49>>

\* a width of -1 beside a column without a width
MinusOneBesideFlex ==
  /\ \E i \in 1..Len(call.columns) : Opt(call.columns[i], "width") = <<[num |-> -1]>>
  /\ \E i \in 1..Len(call.columns) : ~Has(call.columns[i], "width")

\* the two implementations agree on every other column list
WidthsAgreeOtherwise == (WidthsComputed /\ ~MinusOneBesideFlex) => C27_WidthsAgree

----------------------------------------------------------------------------
(* Rows wider than the line, under SpecEncode *)

\* a table of one row was encoded alone
OneRowEncoded == EncodedAlone("table") /\ Len(call.contents[1].rows) = 1

TheRow == call.contents[1].rows[1]

\* the bytes of the row's line: the item's bytes without the line feed and
\* without the bold-on and bold-off around a bold row
LineBytes ==
  IF AnyBold(TheRow) THEN SubSeq(ItemBytes, 4, Len(ItemBytes) - 4)
  ELSE SubSeq(ItemBytes, 1, Len(ItemBytes) - 1)

FlexColumns(cols) == {i \in 1..Len(cols) : ~Has(cols[i], "width")}

\* the sum of the widths the columns with a width ask for
ExplicitSum(cols, totalWidth) ==
  SumSeq([i \in 1..Len(cols) |->
            IF i \in FlexColumns(cols) THEN 0 ELSE AskedWidth(cols[i], totalWidth)])

OverWide(cols) == ExplicitSum(cols, LineWidth) > LineWidth

\* the line of an over-wide row: its explicit columns at their full widths and
\* nothing for its flex columns
OverWideLine(cols) ==
  Concat([i \in 1..Len(cols) |->
            IF i \in FlexColumns(cols) THEN << >>
            ELSE FittedColumn(cols[i], AskedWidth(cols[i], LineWidth))])

\* C28: when the explicit widths of a row sum to more than chars-per-line the
\* row is encoded all the same and nothing is clamped: each flex column gets
\* the non-positive width floor((chars-per-line - used) / flexCount) and adds
\* no character to the line, the explicit columns keep their full widths, and
\* the line is longer than chars-per-line.
C28_OverWideRows ==
  (OneRowEncoded /\ OverWide(TheRow)) =>
    /\ \A i \in FlexColumns(TheRow) :
         /\ escpos_calculateColumnWidths(TheRow, LineWidth)[i]
              = (LineWidth - ExplicitSum(TheRow, LineWidth))
                  \div Cardinality(FlexColumns(TheRow))
         /\ escpos_calculateColumnWidths(TheRow, LineWidth)[i] <= 0
    /\ LineBytes = BufferFromUtf8(OverWideLine(TheRow))
    /\ CharCount(LineBytes) = ExplicitSum(TheRow, LineWidth)
    /\ CharCount(LineBytes) > LineWidth

\* C28 witness: a column of width 50 beside a flex column with a text, on 80 mm
\* paper: a line of 50 characters
C28_Witness ==
  /\ OneRowEncoded
  /\ call.paperWidth = <<80>>
  /\ TheRow = <<[text |-> <<"a", "b">>, width |-> [num |-> 50]], [text |-> <<"a", "b">>]>>
  /\ escpos_calculateColumnWidths(TheRow, LineWidth) = <<50, -2>>
  /\ CharCount(LineBytes) = 50

----------------------------------------------------------------------------
(* Rows of percentage and flex columns, under SpecEncode *)

IsPercent(col) == Has(col.width, "str") /\ EndsWithPercent(col.width.str)

\* every column of the row has no width or a percentage of 0 or more
PercentOrFlex(cols) ==
  \A i \in 1..Len(cols) :
    Has(cols[i], "width") => (IsPercent(cols[i]) /\ ParseInt(cols[i].width.str) >= 0)

PercentSum(cols) ==
  SumSeq([i \in 1..Len(cols) |->
            IF Has(cols[i], "width") THEN ParseInt(cols[i].width.str) ELSE 0])

\* C29: for every row whose columns have no width or a percentage width, the
\* percentages summing to at most 100, the composed line has exactly as many
\* characters as the sum of the computed column widths, and at most
\* chars-per-line; so have the rows the builder makes by row, itemRow, totalRow
\* and the items header of fromData, on both paper widths.
C29_TableLinesFit ==
  (OneRowEncoded /\ PercentOrFlex(TheRow) /\ PercentSum(TheRow) <= 100) =>
    /\ CharCount(LineBytes) = SumSeq(escpos_calculateColumnWidths(TheRow, LineWidth))
    /\ CharCount(LineBytes) = SumSeq(Distributed(TheRow, LineWidth))
    /\ CharCount(LineBytes) <= LineWidth

\* the rows of the builder are rows of percentage and flex columns
BuiltRowsCovered ==
  (OneRowEncoded /\ call.contents[1] \in BuiltTables) =>
    PercentOrFlex(TheRow) /\ PercentSum(TheRow) <= 100

\* C29 witness: an item row with a name of 30 characters on 58 mm paper, whose
\* line has 16 + 4 + 11 = 31 characters
C29_Witness ==
  /\ OneRowEncoded
  /\ call.contents[1] \in BuiltTables
  /\ call.paperWidth = <<58>>
  /\ Len(TheRow) = 3
  /\ Len(TheRow[1].text) = 30
  /\ escpos_calculateColumnWidths(TheRow, LineWidth) = <<16, 4, 11>>
  /\ CharCount(LineBytes) = 31

----------------------------------------------------------------------------
(* Currency options and the rows already appended, under Spec *)

\* the rows of the sequence, table by table, and the other items, in order
Units == Flatten(Items)

\* the last row of the Table that is the last item
LastRow ==
  heap[contents[Len(contents)]].rows[Len(heap[contents[Len(contents)]].rows)]

\* the text of the last column of the last row
LastAmount == LastRow[Len(LastRow)].text

\* the amounts of the item row and of the total row of the sample receipt
\* that fromData has just appended: its last items are the item row's Table,
\* a line, a double line, the total row's Table, a feed and a cut
FromDataAmounts ==
  <<heap[contents[Len(contents) - 5]].rows[1][3].text,
    heap[contents[Len(contents) - 2]].rows[1][2].text>>

CurrencyStep ==
  (calls' # calls) =>
    /\ lastOp'.name = "setCurrency" =>
         /\ heap' = heap
         /\ contents' = contents
         /\ currencyOptions' = SampleCurrency
    /\ lastOp'.name # "setCurrency" => currencyOptions' = currencyOptions
    /\ lastOp'.name = "itemRow" => LastAmount' = formatCurrency(150, currencyOptions)
    /\ lastOp'.name = "totalRow" => LastAmount' = formatCurrency(300, currencyOptions)
    /\ lastOp'.name = "fromData" =>
         FromDataAmounts' = <<formatCurrency(150, currencyOptions),
                              formatCurrency(300, currencyOptions)>>

\* C30: itemRow, totalRow and the amount rows of fromData format their amounts
\* with the currency options in force when the row is appended; a later
\* setCurrency leaves the text of every row already in the sequence unchanged
\* and affects only the rows appended after it; setCurrency appends nothing
\* and changes no item.
C30_CurrencyAtAppend == [][CurrencyStep]_vars

\* C30 witness: an item row appended before setCurrency and one after it, the
\* first still 1.50 and the second 2 $
C30_Witness ==
  /\ CallNames = <<"itemRow", "setCurrency", "itemRow">>
  /\ Len(Units) = 2
  /\ Units[1].columns[3].text = <<"1", ".", "5", "0">>
  /\ Units[2].columns[3].text = <<"2", " ", "$">>

=============================================================================
